---- MODULE Spec2Model ----
(***************************************************************************)
(* Develop engine of darktable (src/develop/develop.c): the history stack, *)
(* the three render jobs (full, preview, second window) and the locks that *)
(* coordinate them with the GUI thread.                                    *)
(***************************************************************************)
EXTENDS Integers, Sequences, FiniteSets, TLC

(***************************************************************************)
(* Bounds of the model.                                                    *)
(***************************************************************************)
MaxLen == 2          \* longest history list explored
MaxPop == 3          \* largest cnt handed to pop_history_items
MaxParam == 1        \* parameter bytes of a module range over 0..MaxParam
MaxFocus == 1        \* focus hashes range over 0..MaxFocus
MaxTimestamp == 4    \* dev->timestamp is explored up to this value
MaxRenderTimestamp == 2  \* the same, where several jobs run at once
NumWorkers == 2      \* worker threads of the job pool
MaxInvalidCnt == 1   \* dev->image_invalid_cnt is explored up to this value
MaxRawCnt == 3       \* the same, where the raw may be missing run after run
MaxTarget == 2       \* targets of an edit: 0 is NULL, the others are widgets
MaxMerged == 2       \* edits in a row without a checkpoint that are counted
merge_same_secs == 2 \* the setting darkroom/undo/merge_same_secs
review_secs == 1     \* the setting darkroom/undo/review_secs
MaxDelay == 2        \* largest autosave_interval, in seconds
MaxNow == 6          \* last reading of the wall clock, in seconds
MaxNloop == 2        \* polls of one wait for a hash
MaxNegNloop == 1     \* timeouts explored go down to -MaxNegNloop
MaxDup == 2          \* most instances added by dt_dev_module_duplicate
CoalesceAdds == 2    \* appends in a row whose change flags are kept in last.flags
MaxEditLen == 5      \* longest history list the GUI thread edits beside the jobs

(***************************************************************************)
(* The installed module instances.  The fields are those of                *)
(* dt_iop_module_t that develop.c reads: so (the operation type),          *)
(* multi_priority, default_enabled, hide_enable_button, default_params and *)
(* the rank of the instance in dev->iop_order_list.                        *)
(***************************************************************************)
INT_MAX == 2147483647

ModuleIds == 1..4

module_so == (1 :> "exposure") @@ (2 :> "colorin") @@ (3 :> "flip") @@ (4 :> "gamma")

module_multi_priority == [m \in ModuleIds |-> 0]

module_default_enabled == (1 :> FALSE) @@ (2 :> TRUE) @@ (3 :> TRUE) @@ (4 :> TRUE)

module_hide_enable_button == (1 :> FALSE) @@ (2 :> TRUE) @@ (3 :> FALSE) @@ (4 :> TRUE)

\* module->flags() & IOP_FLAGS_NO_HISTORY_STACK
module_no_history_stack == (1 :> FALSE) @@ (2 :> FALSE) @@ (3 :> FALSE) @@ (4 :> TRUE)

\* flags() & IOP_FLAGS_ONE_INSTANCE, per module
module_one_instance == (1 :> FALSE) @@ (2 :> TRUE) @@ (3 :> FALSE) @@ (4 :> TRUE)

module_default_params == [m \in ModuleIds |-> 0]

\* module->version(), per module
module_version == [m \in ModuleIds |-> 2]

\* the operation of a row of main.history that no installed module has
UninstalledOp == 5

\* dt_ioppr_get_iop_order(dev->iop_order_list, op, multi_priority)
dt_ioppr_get_iop_order == (1 :> 20) @@ (2 :> 30) @@ (3 :> 10) @@ (4 :> 40)

Pipes == {"full", "preview", "preview2"}

\* dt_dev_pixelpipe_change_t: the bits of pipe->changed, kept as a set
DT_DEV_PIPE_UNCHANGED == {}
DT_DEV_PIPE_TOP_CHANGED == {"TOP_CHANGED"}
DT_DEV_PIPE_REMOVE == {"REMOVE"}
DT_DEV_PIPE_SYNCH == {"SYNCH"}

NoItem == [module |-> 0]

\* dt_dev_pixelpipe_status_t
DT_DEV_PIXELPIPE_DIRTY == "DIRTY"
DT_DEV_PIXELPIPE_RUNNING == "RUNNING"
DT_DEV_PIXELPIPE_VALID == "VALID"
DT_DEV_PIXELPIPE_INVALID == "INVALID"

\* threads: the GUI thread and the workers of the job pool; owner of a free mutex
Workers == 1..NumWorkers
GuiThread == NumWorkers + 1
Threads == {GuiThread} \cup Workers
Free == 0

VARIABLES
  history,            \* dev->history, a list of dt_dev_history_item_t
  history_end,        \* dev->history_end
  mods,               \* per module instance: params, enabled, iop_order
  iop,                \* the instances of dev->iop made by dt_dev_module_duplicate_ext
  focus_hash,         \* dev->focus_hash
  last,               \* the last history operation performed, and what preceded it
  changed,            \* pipe->changed of the three pipelines
  status,             \* dev->image_status, preview_status, preview2_status
  timestamp,          \* dev->timestamp
  input_timestamp,    \* pipe->input_timestamp of the three pipelines
  loading,            \* dev->image_loading, preview_loading, preview2_loading
  input_changed,      \* dev->preview_input_changed, preview2_input_changed
  image_force_reload, \* dev->image_force_reload
  image_invalid_cnt,  \* dev->image_invalid_cnt
  gui_leaving,        \* dev->gui_leaving
  imgid,              \* dev->image_storage.id, 0 while no image is loaded
  pipe_mutex,         \* owner of dev->pipe_mutex, preview_pipe_mutex, preview2_pipe_mutex
  history_mutex,      \* owner of dev->history_mutex
  dev_threadsafe,     \* owner of darktable.dev_threadsafe
  held,               \* per thread, the locks it holds in the order it took them
  job,                \* per worker: the job it runs and where it is in it
  gui,                \* the operation the GUI thread is in and where it is in it
  db_history,         \* the rows of main.history of the image
  db_history_end,     \* main.images.history_end of the image
  image_flags,        \* image->flags of the image in the image cache
  presets_prepended,  \* for each read so far, whether it prepended auto-apply presets
  last_merge,         \* the num of the rows and history_end before and after the last merge
  nodes_hash,         \* per pipeline, the hashes of the pieces of pipe->nodes
  gui_hash,           \* *hash of a caller of dt_dev_sync_pixelpipe_hash
  sync,               \* the call of dt_dev_sync_pixelpipe_hash in progress
  autosaving,         \* dev->autosaving
  user_delay,         \* the setting autosave_interval, in seconds
  now,                \* the wall clock dt_get_wtime reads, in seconds
  last_save,          \* the static last of _dev_auto_save
  requested_id,       \* dev->requested_id
  autosaves,          \* the clock readings at which _dev_auto_save has saved
  write_outcome,      \* of the last command that writes: refused by the store, told to the caller
  undo                \* dev->gui_previous_target, _time, _pipe_time and the undo signals

histvars == <<history, history_end, mods, iop, focus_hash, last>>
pipevars == <<status, timestamp, input_timestamp, loading, input_changed,
              image_force_reload, image_invalid_cnt, gui_leaving, imgid>>
lockvars == <<pipe_mutex, history_mutex, dev_threadsafe, held>>
dbvars == <<db_history, db_history_end, image_flags, presets_prepended, last_merge>>
hashvars == <<nodes_hash, gui_hash, sync>>
savedvars == <<autosaving, user_delay, now, last_save, requested_id, autosaves,
               write_outcome>>
savevars == <<savedvars, undo>>
auxvars == <<hashvars, savevars>>
rendervars == <<pipevars, lockvars, job, gui, dbvars, auxvars>>

vars == <<histvars, changed, rendervars>>

(***************************************************************************)
(* List helpers with glib's conventions (0-based, NULL when out of range). *)
(***************************************************************************)
\* g_list_nth(list, n): n is a guint, so a negative n is out of range
g_list_nth(list, n) ==
  IF n >= 0 /\ n < Len(list) THEN list[n + 1] ELSE NoItem

SelectIdx(list, keep(_)) ==
  LET F[i \in 0..Len(list)] ==
        IF i = 0 THEN << >>
        ELSE IF keep(i) THEN Append(F[i - 1], list[i]) ELSE F[i - 1]
  IN F[Len(list)]

(***************************************************************************)
(* _dev_add_history_item_ext                                               *)
(***************************************************************************)
\* lines 1006-1018: an entry of the same operation at or below history_end - 1
earlier_entry(h, he, i) ==
  \E j \in 1..Len(h) : j <= he /\ (he - 1) < Len(h)
                       /\ module_so[h[j].module] = module_so[h[i].module]

\* the obsolete items are not freed: every entry above history_end survives
kept_entry_all(h, he, i) == TRUE

\* the earlier entry is not looked for: what is default-enabled or has its
\* enable button hidden survives
kept_entry_no_earlier(h, he, i) ==
  module_hide_enable_button[h[i].module] \/ module_default_enabled[h[i].module]

\* lines 1020-1027: what survives of an entry above history_end
kept_entry(h, he, i) ==
  ~ ( (~module_hide_enable_button[h[i].module]
       /\ ~module_default_enabled[h[i].module])
      \/ earlier_entry(h, he, i) )

\* the cursor is not brought down to the end of the list
truncate_history_unclamped(h, he) ==
  LET hasTail == he >= 0 /\ he < Len(h)
      h1 == IF hasTail
            THEN SelectIdx(h, LAMBDA i : i <= he \/ kept_entry(h, he, i))
            ELSE h
      kept_module == Len(h1) - (IF hasTail THEN he ELSE Len(h1))
  IN [history |-> h1, history_end |-> he + kept_module]

\* lines 995-1034: drop the obsolete items above history_end
truncate_history(h, he) ==
  LET hasTail == he >= 0 /\ he < Len(h)
      h1 == IF hasTail
            THEN SelectIdx(h, LAMBDA i : i <= he \/ kept_entry(h, he, i))
            ELSE h
      kept_module == Len(h1) - (IF hasTail THEN he ELSE Len(h1))
      \* while(history_end > 0 && !g_list_nth(history, history_end - 1)) history_end--
      he1 == IF he > 0 /\ he > Len(h1) THEN Len(h1) ELSE he
  IN [history |-> h1, history_end |-> he1 + kept_module]

\* an off-by-one in the index of the tail: the item above the cursor
tail_item_above(h, he) == g_list_nth(h, he)

\* lines 1036-1037: the item the cursor sits on, NULL if there is none
tail_item(h, he) == g_list_nth(h, he - 1)

\* the focus hash is not consulted: any change of the parameters pushes
push_on_any_change(hist, m, ms, fh, new_item, include_masks) ==
  \/ hist = NoItem
  \/ new_item
  \/ m # hist.module
  \/ module_multi_priority[m] # module_multi_priority[hist.module]
  \/ include_masks
  \/ hist.params # ms[m].params

\* lines 1054-1064: TRUE when a new item is pushed, FALSE when the tail is updated
push_new_item(hist, m, ms, fh, new_item, include_masks) ==
  \/ hist = NoItem
  \/ new_item
  \/ m # hist.module
  \/ module_multi_priority[m] # module_multi_priority[hist.module]
  \/ (fh # hist.focus_hash
      /\ (include_masks \/ hist.params # ms[m].params))

dev_add_history_item_ext(h, he, ms, fh, ch, m, enable, new_item, no_image, include_masks) ==
  LET t == truncate_history(h, he)
      hist == tail_item(t.history, t.history_end)
      ms1 == IF enable THEN [ms EXCEPT ![m].enabled = TRUE] ELSE ms
      push == push_new_item(hist, m, ms1, fh, new_item, include_masks)
      item == [module |-> m, params |-> ms1[m].params, enabled |-> ms1[m].enabled,
               focus_hash |-> fh, iop_order |-> ms1[m].iop_order,
               multi_priority |-> module_multi_priority[m],
               version |-> module_version[m],
               forms |-> include_masks]
      upd == [hist EXCEPT !.params = ms1[m].params,
                          !.iop_order = ms1[m].iop_order,
                          !.multi_priority = module_multi_priority[m],
                          !.enabled = ms1[m].enabled,
                          !.forms = IF include_masks THEN TRUE ELSE @]
      flag == IF push THEN DT_DEV_PIPE_SYNCH ELSE DT_DEV_PIPE_TOP_CHANGED
  IN [history |-> IF push THEN Append(t.history, item)
                  ELSE [t.history EXCEPT ![t.history_end] = upd],
      history_end |-> IF push THEN t.history_end + 1 ELSE t.history_end,
      mods |-> ms1,
      changed |-> IF no_image THEN ch ELSE [p \in Pipes |-> ch[p] \cup flag],
      raised |-> IF no_image THEN DT_DEV_PIPE_UNCHANGED ELSE flag,
      pushed |-> push]

(***************************************************************************)
(* dt_dev_pop_history_items_ext                                            *)
(***************************************************************************)
\* the enabled flag is not reset: every module comes out enabled
reset_module_enabled(m) ==
  [params |-> module_default_params[m],
   enabled |-> TRUE,
   iop_order |-> IF module_multi_priority[m] = 0
                 THEN dt_ioppr_get_iop_order[m] ELSE INT_MAX]

\* lines 1413-1427: reset gui params for all modules
reset_module(m) ==
  [params |-> module_default_params[m],
   enabled |-> module_default_enabled[m],
   iop_order |-> IF module_multi_priority[m] = 0
                 THEN dt_ioppr_get_iop_order[m] ELSE INT_MAX]

\* lines 1431-1448: go through history and set gui params
RECURSIVE replay_history(_, _, _, _)
replay_history(ms, h, i, cnt) ==
  IF i < cnt /\ i < Len(h)
  THEN LET hist == h[i + 1]
       IN replay_history([ms EXCEPT ![hist.module] =
                            [params |-> hist.params,
                             enabled |-> hist.enabled,
                             iop_order |-> hist.iop_order]],
                         h, i + 1, cnt)
  ELSE ms

dt_dev_pop_history_items_ext(h, ms, cnt) ==
  [history_end |-> cnt,
   mods |-> replay_history([m \in ModuleIds |-> reset_module(m)], h, 0, cnt)]

\* dt_ioppr_resync_modules_order and dt_ioppr_check_duplicate_iop_order, of
\* iop_order.c: an instance that sits at INT_MAX is left there. It is the
\* instance that the shortcuts pass over (accelerators.c 2051, 2223:
\* mod->iop_order != INT_MAX)
dt_ioppr_resync_modules_order(insts) == insts

\* lines 1413-1427 for the instances beyond the first: multi_priority is not
\* 0, the rank becomes INT_MAX; no history item is theirs, the replay of
\* 1431-1448 leaves them alone
pop_instances(insts) ==
  dt_ioppr_resync_modules_order(
    [i \in 1..Len(insts) |->
       [insts[i] EXCEPT !.iop_order = IF insts[i].multi_priority = 0
                                      THEN dt_ioppr_get_iop_order[insts[i].instance]
                                      ELSE INT_MAX]])

(***************************************************************************)
(* dt_dev_module_duplicate_ext                                             *)
(***************************************************************************)
\* lines 2894-2905: one more than the largest multi_priority among the
\* instances of the operation of base
new_multi_priority(insts, base) ==
  LET ps == {0} \cup {insts[i].multi_priority :
                        i \in {j \in 1..Len(insts) : insts[j].instance = base}}
  IN (CHOOSE p \in ps : \A q \in ps : q <= p) + 1

\* dt_ioppr_insert_module_instance and dt_ioppr_move_iop_after, of
\* iop_order.c: the new instance takes the rank right after the one of base,
\* the instances that sit from there on move up by one
dt_ioppr_move_iop_after(insts, ms, base, pmax) ==
  LET rank == ms[base].iop_order + 1
      shifted == [i \in 1..Len(insts) |->
                    IF insts[i].iop_order >= rank /\ insts[i].iop_order # INT_MAX
                    THEN [insts[i] EXCEPT !.iop_order = @ + 1]
                    ELSE insts[i]]
  IN Append(shifted, [instance |-> base, multi_priority |-> pmax,
                      iop_order |-> rank])

\* no test of flags(): an instance is made of any base
dt_dev_module_duplicate_ext(insts, ms, base) ==
  dt_ioppr_move_iop_after(insts, ms, base, new_multi_priority(insts, base))

(***************************************************************************)
(* Initial state: dt_dev_init followed by the load of the module list.     *)
(***************************************************************************)
IdleJob == [pc |-> "idle", pipe |-> "full", recreated |-> FALSE,
            flushed |-> FALSE]

IdleGui == [pc |-> "idle", module |-> 0, cnt |-> 0, next |-> "idle"]

\* the image comes with one stored edit: a row of main.history
stored_row == [module |-> 1, params |-> 0, enabled |-> TRUE, focus_hash |-> 0,
               iop_order |-> dt_ioppr_get_iop_order[1], multi_priority |-> 0,
               version |-> module_version[1], forms |-> FALSE]

\* op: the operation; module, pushed: of an append; rep: how the append
\* relates to the tail it found when it asks for no new item and the tail is
\* of the same instance ("same": same parameter bytes and focus hash,
\* "params" / "focus" / "both": what differs), "no" otherwise; cnt, len0 of a
\* pop: its argument and the length of the list, full: the cursor was at the
\* end of the list before it; cnt, len0 of an append: those of the pop right
\* before it when that pop left a redo tail; beyond: the cursor was beyond the
\* end of the list before the append
NoOp == [op |-> "none", module |-> 0, cnt |-> -1, pushed |-> FALSE,
         rep |-> "no", full |-> FALSE, len0 |-> 0, flags |-> << >>,
         beyond |-> FALSE]

(***************************************************************************)
(* The pieces of a pipeline and the hash dt_dev_hash_plus folds from them.  *)
(***************************************************************************)
\* pipe->nodes before dt_dev_pixelpipe_create_nodes has run
NoNodes == << >>

\* the modules of pipe->iop from the last to the first, that is by falling
\* iop_order
iop_last_to_first ==
  CHOOSE q \in [1..Cardinality(ModuleIds) -> ModuleIds] :
    /\ \A i, j \in DOMAIN q : i # j => q[i] # q[j]
    /\ \A i, j \in DOMAIN q :
         i < j => dt_ioppr_get_iop_order[q[i]] > dt_ioppr_get_iop_order[q[j]]

\* the piece of module m once the pipeline is synchronised with the entries
\* [0, he) of h: enabled flag and parameters of the last entry of m there, the
\* defaults of m when it has none; the piece hash stands for what it digests
synch_piece(h, he, m) ==
  LET n == IF he < Len(h) THEN he ELSE Len(h)
      own == {i \in 1..n : h[i].module = m}
      top == CHOOSE i \in own : \A k \in own : k <= i
  IN IF own = {}
     THEN [enabled |-> module_default_enabled[m],
           hash |-> <<m, module_default_params[m]>>]
     ELSE [enabled |-> h[top].enabled, hash |-> <<m, h[top].params>>]

\* dt_dev_pixelpipe_synch_all: every piece follows the active entries
dt_dev_pixelpipe_synch_all(h, he) ==
  [m \in ModuleIds |-> synch_piece(h, he, m)]

\* dt_dev_hash_plus(dev, pipe, 0, DT_DEV_TRANSFORM_DIR_ALL): 0 without pieces,
\* else the fold, from 5381, of the hashes of the enabled pieces, last to
\* first; the fold is kept as the list of what goes into it
dt_dev_hash_plus(nodes) ==
  IF nodes = NoNodes THEN << 0 >>
  ELSE LET on == SelectIdx(iop_last_to_first,
                           LAMBDA i : nodes[iop_last_to_first[i]].enabled)
       IN << 5381 >> \o [i \in 1..Len(on) |-> nodes[on[i]].hash]

\* no call of dt_dev_sync_pixelpipe_hash has been made
NoSync == [n |-> 0, probe |-> << >>, result |-> "none", stale |-> FALSE,
           nloop |-> 0, why |-> "none", flags |-> {}]

\* no merge has run
NoMerge == [k |-> 0, fail |-> "none", nums0 |-> << >>, end0 |-> 0,
            nums |-> << >>, history_end |-> 0, rows |-> << >>, legacy |-> FALSE]

\* no command has written, or the last one found the store willing
NoWrite == [refused |-> FALSE, surfaced |-> FALSE, slow |-> FALSE]


(***************************************************************************)
(* Undo checkpoints.  A target is the widget that drives an edit, 0 is     *)
(* NULL; depth counts the HISTORY_WILL_CHANGE signals that no               *)
(* HISTORY_CHANGE has followed yet.                                         *)
(***************************************************************************)
Targets == 0..MaxTarget

\* dev->gui_previous_target, gui_previous_time, gui_previous_pipe_time after
\* the memset of dt_dev_init; need_end: need_end_record of the edit in
\* progress; opened: the last edit opened a checkpoint; merged: how many edits
\* in a row have opened none, up to MaxMerged; asked, renamed: the target the
\* caller of the last edit gave and whether the label of its module changed
NoUndo == [target |-> 0, time |-> 0, pipe_time |-> 0, need_end |-> FALSE,
           opened |-> FALSE, merged |-> 0, depth |-> 0, asked |-> 0,
           renamed |-> FALSE]

\* MIN(merge_time, review_time)
undo_window(u) ==
  IF u.time + merge_same_secs < u.pipe_time + review_secs
  THEN u.time + merge_same_secs ELSE u.pipe_time + review_secs

\* an edit of the same target merges whatever the clock says
undo_merges_any_time(u, t, target) == target # 0 /\ target = u.target

\* the test of _dev_undo_start_record_target: the edit at time t goes into
\* the checkpoint that is there
undo_merges(u, t, target) ==
  target # 0 /\ target = u.target /\ t < undo_window(u)

\* dt_dev_undo_start_record: HISTORY_WILL_CHANGE is raised (the develop state
\* is attached to the darkroom), the previous target is forgotten
dt_dev_undo_start_record(u) ==
  [u EXCEPT !.depth = @ + 1, !.target = 0]

\* dt_dev_undo_end_record: HISTORY_CHANGE is raised
dt_dev_undo_end_record(u) ==
  [u EXCEPT !.depth = @ - 1]

\* _dev_undo_start_record_target at time t: gui_previous_pipe_time becomes
\* merge_time in any case; unless the edit merges, a record is started and
\* target and time are kept
dev_undo_start_record_target(u, t, target) ==
  LET u1 == [u EXCEPT !.pipe_time = u.time + merge_same_secs] IN
  IF undo_merges(u, t, target)
  THEN [u1 EXCEPT !.need_end = FALSE, !.opened = FALSE,
                  !.merged = IF @ < MaxMerged THEN @ + 1 ELSE @]
  ELSE [dt_dev_undo_start_record(u1) EXCEPT
          !.target = target, !.time = t, !.need_end = TRUE, !.opened = TRUE,
          !.merged = 0]

\* the checkpoint of dt_dev_read_history_ext: dt_dev_undo_start_record at
\* its start (2097), dt_dev_undo_end_record only under dev->gui_attached &&
\* !no_image (2489-2496); without gui_attached neither signal is raised
read_history_undo(u, gui_attached, no_image) ==
  IF ~gui_attached THEN [u EXCEPT !.target = 0]
  ELSE IF no_image THEN dt_dev_undo_start_record(u)
  ELSE dt_dev_undo_end_record(dt_dev_undo_start_record(u))

InitCore ==
  /\ history = << >>
  /\ history_end = 0
  /\ mods = [m \in ModuleIds |-> reset_module(m)]
  /\ iop = << >>
  /\ focus_hash = 0
  /\ changed = [p \in Pipes |-> DT_DEV_PIPE_UNCHANGED]
  /\ last = NoOp
  /\ status = [p \in Pipes |-> DT_DEV_PIXELPIPE_DIRTY]
  /\ timestamp = 0
  /\ input_timestamp = [p \in Pipes |-> 0]
  /\ loading = [p \in Pipes |-> FALSE]
  /\ input_changed = [p \in Pipes |-> FALSE]
  /\ image_force_reload = FALSE
  /\ image_invalid_cnt = 0
  /\ gui_leaving = FALSE
  /\ imgid = 0
  /\ pipe_mutex = [p \in Pipes |-> Free]
  /\ history_mutex = Free
  /\ dev_threadsafe = Free
  /\ held = [t \in Threads |-> << >>]
  /\ job = [w \in Workers |-> IdleJob]
  /\ gui = IdleGui
  /\ presets_prepended = << >>
  /\ last_merge = NoMerge
  /\ nodes_hash = [p \in Pipes |-> NoNodes]
  /\ gui_hash = dt_dev_hash_plus(NoNodes)
  /\ sync = NoSync
  /\ now = MaxDelay + 1
  /\ last_save = 0
  /\ requested_id = 0
  /\ autosaves = << >>
  /\ write_outcome = NoWrite
  /\ undo = NoUndo

\* dt_dev_init: dev->autosaving = FALSE; autosave_interval as installed
InitDev ==
  /\ InitCore
  /\ autosaving = FALSE
  /\ user_delay = MaxDelay

\* the image was imported with one edit and has never been opened
Init ==
  /\ InitDev
  /\ db_history = << stored_row >>
  /\ db_history_end = 1
  /\ image_flags = {}

(***************************************************************************)
(* Operations of the history stack, called without a pipeline running.     *)
(* The module handed to the append carries the parameter bytes v its GUI   *)
(* wrote, and the develop state the focus hash f of the focused module.    *)
(***************************************************************************)
\* how an append of instance m with parameter bytes v under focus hash f
\* relates to the item the cursor sits on once the redo tail is dropped
tail_relation(h, he, m, v, f, new_item) ==
  LET t == truncate_history(h, he)
      hist == g_list_nth(t.history, t.history_end - 1)
  IN IF new_item \/ hist = NoItem THEN "no"
     ELSE IF hist.module # m THEN "no"
     ELSE IF hist.params = v /\ hist.focus_hash = f THEN "same"
     ELSE IF hist.focus_hash = f THEN "params"
     ELSE IF hist.params = v THEN "focus"
     ELSE "both"

\* _dev_write_history: one row of main.history per entry of dev->history, redo
\* tail included, written by _dev_write_history_item; the focus hash of an
\* entry is not among the columns
dev_write_history(h) ==
  [i \in 1..Len(h) |-> [h[i] EXCEPT !.focus_hash = 0]]

\* the interval has only to be reached, and an interval of 0 saves as well
dev_auto_save_at_least(autosv, delay, t, lst, ldg, req, id, slow) ==
  LET saving == autosv /\ (t - lst) >= delay /\ ~ldg /\ req = id /\ id > 0
  IN [saving |-> saving,
      last |-> IF saving THEN t ELSE lst,
      autosaving |-> IF saving /\ slow THEN FALSE ELSE autosv]

\* dev->autosaving after _dev_auto_save: a write that took more than 0.5 s
\* switches it off
autosaving_kept(autosv, saving, slow) == autosv
autosaving_after(autosv, saving, slow) ==
  IF saving /\ slow THEN FALSE ELSE autosv

\* if(dev->autosaving) _dev_auto_save(dev): whether it saves, the new last and
\* the new dev->autosaving; slow: the write took more than 0.5 s
dev_auto_save(autosv, delay, t, lst, ldg, req, id, slow) ==
  LET saving == /\ autosv
                /\ delay >= 1
                /\ (t - lst) > delay
                /\ ~ldg
                /\ req = id
                /\ id > 0
  IN [saving |-> saving,
      last |-> IF saving THEN t ELSE lst,
      autosaving |-> autosaving_after(autosv, saving, slow)]

\* dt_dev_write_history of the history h, he over the rows and the history_end
\* stored; refused: the store refuses the statements of the transaction. The
\* results of sqlite3_step are not looked at and the function returns void:
\* surfaced, what the caller is told of a refusal, is FALSE
dt_dev_write_history(h, he, rows, end, refused) ==
  [db_history |-> IF refused THEN rows ELSE dev_write_history(h),
   db_history_end |-> IF refused THEN end ELSE he,
   outcome |-> [refused |-> refused, surfaced |-> FALSE, slow |-> FALSE]]

\* the end of _dev_add_history_item_ext, which has made the history h, he:
\* dt_dev_write_history when _dev_auto_save saves
AutoSave(h, he, ldg, id, slow, refused) ==
  \E a \in {dev_auto_save(autosaving, user_delay, now, last_save, ldg,
                            requested_id, id, slow)},
     w \in {dt_dev_write_history(h, he, db_history, db_history_end, refused)} :
     /\ db_history' = IF a.saving THEN w.db_history ELSE db_history
     /\ db_history_end' = IF a.saving THEN w.db_history_end ELSE db_history_end
     /\ write_outcome' = IF a.saving THEN [w.outcome EXCEPT !.slow = slow]
                         ELSE NoWrite
     /\ last_save' = a.last
     /\ autosaving' = a.autosaving
     /\ autosaves' = IF a.saving THEN Append(autosaves, now) ELSE autosaves
     /\ UNCHANGED <<image_flags, presets_prepended, last_merge, user_delay, now,
                    requested_id, undo>>

\* what the appends have or-ed into pipe->changed (1092-1097, 1119-1124), one
\* after the other, from the append that found dev->history empty on; not
\* kept when no_image is set, after a pop or beyond CoalesceAdds appends
raised_flags(prev, len, no_image, raised) ==
  IF no_image THEN << >>
  ELSE IF len = 0 THEN << raised >>
  ELSE IF prev.op = "append" /\ prev.flags # << >> /\ Len(prev.flags) < CoalesceAdds
  THEN Append(prev.flags, raised)
  ELSE << >>

AddHistoryItemExt(m, v, f, enable, new_item, no_image, include_masks) ==
  \E r \in {dev_add_history_item_ext(history, history_end,
                                      [mods EXCEPT ![m].params = v], f, changed,
                                      m, enable, new_item, no_image, include_masks)} :
     /\ Len(r.history) <= MaxLen
     /\ history' = r.history
     /\ history_end' = r.history_end
     /\ mods' = r.mods
     /\ changed' = r.changed
     /\ focus_hash' = f
     /\ last' = LET drop == /\ last.op = "pop" /\ last.full
                             /\ last.cnt >= 1 /\ last.cnt < last.len0
                 IN [op |-> "append", module |-> m,
                     cnt |-> IF drop THEN last.cnt ELSE -1,
                     pushed |-> r.pushed,
                     rep |-> tail_relation(history, history_end, m, v, f, new_item),
                     full |-> drop,
                     len0 |-> IF drop THEN last.len0 ELSE 0,
                     flags |-> raised_flags(last, Len(history), no_image, r.raised),
                     beyond |-> history_end > Len(history)]
     /\ AutoSave(r.history, r.history_end, loading["full"], imgid, FALSE, FALSE)
     /\ UNCHANGED <<iop, pipevars, lockvars, job, gui, hashvars>>

PopHistoryItemsExt(cnt) ==
  \E r \in {dt_dev_pop_history_items_ext(history, mods, cnt)} :
     /\ history_end' = r.history_end
     /\ mods' = r.mods
     /\ last' = [op |-> "pop", module |-> 0, cnt |-> cnt, pushed |-> FALSE,
                 rep |-> "no",
                 full |-> history_end = Len(history), len0 |-> Len(history),
                 flags |-> << >>, beyond |-> FALSE]
     /\ iop' = pop_instances(iop)
     /\ UNCHANGED <<history, focus_hash, changed, rendervars>>

DuplicateModule(base) ==
  /\ Len(iop) < MaxDup
  /\ iop' = dt_dev_module_duplicate_ext(iop, mods, base)
  /\ UNCHANGED <<history, history_end, mods, focus_hash, last, changed, rendervars>>

NextHist ==
  \/ \E m \in ModuleIds, v \in 0..MaxParam, f \in 0..MaxFocus,
        enable \in BOOLEAN, new_item \in BOOLEAN, include_masks \in BOOLEAN :
       AddHistoryItemExt(m, v, f, enable, new_item, TRUE, include_masks)
  \/ \E cnt \in 0..MaxPop : PopHistoryItemsExt(cnt)

SpecHist == Init /\ [][NextHist]_vars

(***************************************************************************)
(* dt_dev_module_remove                                                    *)
(***************************************************************************)
\* lines 2979-3030: on a gui-attached develop state every history item of
\* the module is deleted and history_end is lowered by one for each of them;
\* dt_dev_undo_start_record before the loop, dt_dev_undo_end_record only when
\* an item was deleted
dt_dev_module_remove(h, he, u, m, gui_attached) ==
  LET del == gui_attached /\ \E i \in 1..Len(h) : h[i].module = m
      cut == Cardinality({i \in 1..Len(h) : h[i].module = m})
      u1 == IF gui_attached THEN dt_dev_undo_start_record(u) ELSE u
  IN [history |-> IF gui_attached
                  THEN SelectIdx(h, LAMBDA i : h[i].module # m) ELSE h,
      history_end |-> IF gui_attached THEN he - cut ELSE he,
      undo |-> IF del THEN dt_dev_undo_end_record(u1) ELSE u1,
      del |-> del]

\* dt_dev_module_remove of the darkroom (dev->gui_attached). The module
\* leaves dev->iop: it is no input of a later step
ModuleRemove(m) ==
  \E r \in {dt_dev_module_remove(history, history_end, undo, m, TRUE)} :
     /\ history_mutex = Free
     /\ history' = r.history
     /\ history_end' = r.history_end
     /\ undo' = r.undo
     /\ last' = [op |-> "remove", module |-> m, cnt |-> history_end,
                 pushed |-> r.del, rep |-> "no",
                 full |-> history_end = Len(history), len0 |-> Len(history),
                 flags |-> << >>, beyond |-> history_end > Len(history)]
     /\ UNCHANGED <<mods, iop, focus_hash, changed, pipevars, lockvars, job, gui,
                    dbvars, hashvars, savedvars>>

\* appends and pops, then the removal of modules one after the other, none
\* twice and none used after its removal
NextRemove ==
  \/ /\ last.op # "remove"
     /\ \E m \in {1, 2, 3}, v \in 0..MaxParam, new_item \in BOOLEAN :
          AddHistoryItemExt(m, v, 0, TRUE, new_item, TRUE, FALSE)
  \/ /\ last.op # "remove"
     /\ \E cnt \in 0..MaxLen : PopHistoryItemsExt(cnt)
  \/ \E m \in ModuleIds :
       /\ last.op = "remove" => m > last.module
       /\ ModuleRemove(m)

SpecRemove == Init /\ [][NextRemove]_vars

(***************************************************************************)
(* Locks.  held[t] lists what thread t holds, oldest first.                *)
(***************************************************************************)
Acquire(t, l) == [held EXCEPT ![t] = Append(@, l)]

\* the unlock is left out: the thread keeps what it holds
release_missing(t, l) == held

\* dt_pthread_mutex_unlock
Release(t, l) == [held EXCEPT ![t] = SelectSeq(@, LAMBDA x : x # l)]

\* dt_dev_invalidate_all: the new statuses
all_dirty == [p \in Pipes |-> DT_DEV_PIXELPIPE_DIRTY]

(***************************************************************************)
(* The render jobs dt_dev_process_image_job ("full"),                      *)
(* dt_dev_process_preview_job ("preview") and dt_dev_process_preview2_job  *)
(* ("preview2"), run by worker w.  Each action is one stretch of the job   *)
(* between two points where another thread can be observed or observe it.  *)
(***************************************************************************)
\* dt_dev_process_image, dt_dev_process_preview, dt_dev_process_preview2: the
\* GUI thread, between two of its operations, queues the job and worker w picks
\* it up; the two preview jobs return at once while the raw is loading
JobStart(w, p) ==
  /\ job[w].pc = "idle"
  /\ gui.pc = "idle"
  /\ imgid # 0
  /\ p # "full" => ~loading["full"]
  /\ job' = [job EXCEPT ![w] = [IdleJob EXCEPT !.pc = "lock", !.pipe = p]]
  /\ UNCHANGED <<histvars, changed, pipevars, lockvars, gui, dbvars, auxvars>>

\* the mutex is taken without waiting for its owner to release it
pipe_lock_skipped(p) == TRUE

\* dt_pthread_mutex_lock(pipe mutex) returns once the mutex is free
pipe_lockable(p) == pipe_mutex[p] = Free

\* dt_pthread_mutex_lock(pipe mutex); gui_leaving: unlock and return;
\* otherwise status = RUNNING (the two previews first take the timestamp)
JobLock(w) ==
  LET p == job[w].pipe IN
  /\ job[w].pc = "lock"
  /\ pipe_lockable(p)
  /\ IF gui_leaving
     THEN /\ job' = [job EXCEPT ![w] = IdleJob]
          /\ UNCHANGED <<status, input_timestamp, pipe_mutex, held>>
     ELSE /\ pipe_mutex' = [pipe_mutex EXCEPT ![p] = w]
          /\ held' = Acquire(w, p)
          /\ input_timestamp' = IF p = "full" THEN input_timestamp
                                ELSE [input_timestamp EXCEPT ![p] = timestamp]
          /\ status' = [status EXCEPT ![p] = DT_DEV_PIXELPIPE_RUNNING]
          /\ job' = [job EXCEPT ![w].pc = "getbuf"]
  /\ UNCHANGED <<histvars, changed, timestamp, loading, input_changed,
                 image_force_reload, image_invalid_cnt, gui_leaving, imgid,
                 history_mutex, dev_threadsafe, gui, dbvars, auxvars>>

\* whether the setup of a run calls dt_dev_pixelpipe_cache_flush: the two
\* previews when loading or when their input changed, the Full job when
\* loading with image_force_reload set
cache_flushed_when_loading(p, ldg, inchg, force) == ldg
cache_flushed(p, ldg, inchg, force) ==
  IF p = "full" THEN ldg /\ force ELSE ldg \/ inchg

\* the invalid-image counter after a run that got no buffer: only the Full
\* job counts
raw_missing_cnt_kept(p, cnt) == cnt
raw_missing_cnt(p, cnt) == IF p = "full" THEN cnt + 1 ELSE cnt

\* dt_mipmap_cache_get; no buffer: status = DIRTY, unlock, return;
\* otherwise set the input and, when loading, recreate the nodes; the counter
\* is explored up to cap
JobGetBufCap(w, avail, cap) ==
  LET p == job[w].pipe IN
  /\ job[w].pc = "getbuf"
  /\ IF ~avail
     THEN /\ p = "full" => image_invalid_cnt < cap
          /\ status' = [status EXCEPT ![p] = DT_DEV_PIXELPIPE_DIRTY]
          /\ pipe_mutex' = [pipe_mutex EXCEPT ![p] = Free]
          /\ held' = Release(w, p)
          /\ image_invalid_cnt' = raw_missing_cnt(p, image_invalid_cnt)
          /\ job' = [job EXCEPT ![w] = IdleJob]
          /\ UNCHANGED <<loading, input_changed, image_force_reload, changed>>
     ELSE /\ IF p = "full"
             THEN IF loading["full"]
                  THEN /\ image_force_reload' = FALSE
                       /\ input_changed' = [input_changed EXCEPT !["preview"] = TRUE,
                                                                 !["preview2"] = TRUE]
                       /\ status' = [status EXCEPT
                                       !["preview"] = DT_DEV_PIXELPIPE_DIRTY,
                                       !["preview2"] = DT_DEV_PIXELPIPE_DIRTY]
                       /\ changed' = [q \in Pipes |-> changed[q] \cup DT_DEV_PIPE_SYNCH]
                       /\ UNCHANGED loading
                  ELSE UNCHANGED <<image_force_reload, input_changed, status,
                                   changed, loading>>
             ELSE /\ loading' = [loading EXCEPT ![p] = FALSE]
                  /\ input_changed' = [input_changed EXCEPT ![p] = FALSE]
                  /\ UNCHANGED <<image_force_reload, status, changed>>
          /\ job' = [job EXCEPT ![w].pc = "restart",
                                 ![w].recreated = loading[p],
                                 ![w].flushed = cache_flushed(p, loading[p],
                                                  input_changed[p],
                                                  image_force_reload)]
          /\ UNCHANGED <<pipe_mutex, held, image_invalid_cnt>>
  /\ UNCHANGED <<histvars, timestamp, input_timestamp, gui_leaving, imgid,
                 history_mutex, dev_threadsafe, gui, dbvars, auxvars>>

JobGetBuf(w, avail) == JobGetBufCap(w, avail, MaxInvalidCnt)

\* restart: gui_leaving: status = INVALID, unlock, return
JobRestart(w) ==
  LET p == job[w].pipe IN
  /\ job[w].pc = "restart"
  /\ IF gui_leaving
     THEN /\ status' = [status EXCEPT ![p] = DT_DEV_PIXELPIPE_INVALID]
          /\ pipe_mutex' = [pipe_mutex EXCEPT ![p] = Free]
          /\ held' = Release(w, p)
          /\ job' = [job EXCEPT ![w] = IdleJob]
          /\ UNCHANGED input_timestamp
     ELSE /\ input_timestamp' = IF p = "full"
                                THEN [input_timestamp EXCEPT ![p] = timestamp]
                                ELSE input_timestamp
          /\ job' = [job EXCEPT ![w].pc = "change"]
          /\ UNCHANGED <<status, pipe_mutex, held>>
  /\ UNCHANGED <<histvars, changed, timestamp, loading, input_changed,
                 image_force_reload, image_invalid_cnt, gui_leaving, imgid,
                 history_mutex, dev_threadsafe, gui, dbvars, auxvars>>

\* dt_dev_pixelpipe_change, entry: it locks dev->history_mutex
JobChangeLock(w) ==
  /\ job[w].pc = "change"
  /\ history_mutex = Free
  /\ history_mutex' = w
  /\ held' = Acquire(w, "history")
  /\ job' = [job EXCEPT ![w].pc = "changing"]
  /\ UNCHANGED <<histvars, changed, pipevars, pipe_mutex, dev_threadsafe, gui, dbvars, auxvars>>

\* dt_dev_pixelpipe_change, body: when a change is flagged the pieces follow
\* the active entries, the changed value is cleared, the history mutex is
\* released
JobChange(w) ==
  LET p == job[w].pipe IN
  /\ job[w].pc = "changing"
  /\ changed' = [changed EXCEPT ![p] = DT_DEV_PIPE_UNCHANGED]
  /\ nodes_hash' = IF changed[p] = DT_DEV_PIPE_UNCHANGED THEN nodes_hash
                   ELSE [nodes_hash EXCEPT
                           ![p] = dt_dev_pixelpipe_synch_all(history, history_end)]
  /\ history_mutex' = Free
  /\ held' = Release(w, "history")
  /\ job' = [job EXCEPT ![w].pc = "process"]
  /\ UNCHANGED <<histvars, pipevars, pipe_mutex, dev_threadsafe, gui, dbvars,
                 gui_hash, sync, savevars>>

\* dt_dev_pixelpipe_process returns: nonzero when it was interrupted; a
\* completed Preview leaves its hash with the module that waits on it
JobProcess(w, interrupted) ==
  LET p == job[w].pipe
      giveup == IF p = "full" THEN image_force_reload
                ELSE loading[p] \/ input_changed[p]
  IN
  /\ job[w].pc = "process"
  /\ IF interrupted
     THEN IF giveup
          THEN /\ status' = [status EXCEPT ![p] = DT_DEV_PIXELPIPE_INVALID]
               /\ pipe_mutex' = [pipe_mutex EXCEPT ![p] = Free]
               /\ held' = Release(w, p)
               /\ job' = [job EXCEPT ![w] = IdleJob]
          ELSE /\ job' = [job EXCEPT ![w].pc = "restart"]
               /\ UNCHANGED <<status, pipe_mutex, held>>
     ELSE IF p = "full"
          THEN \* if(dev->pipe->changed != DT_DEV_PIPE_UNCHANGED) goto restart
               /\ job' = [job EXCEPT ![w].pc =
                             IF changed["full"] # DT_DEV_PIPE_UNCHANGED
                             THEN "restart" ELSE "publish"]
               /\ UNCHANGED <<status, pipe_mutex, held>>
          ELSE /\ status' = [status EXCEPT ![p] = DT_DEV_PIXELPIPE_VALID]
               /\ pipe_mutex' = [pipe_mutex EXCEPT ![p] = Free]
               /\ held' = Release(w, p)
               /\ job' = [job EXCEPT ![w] = IdleJob]
  /\ gui_hash' = IF ~interrupted /\ p = "preview"
                 THEN dt_dev_hash_plus(nodes_hash[p]) ELSE gui_hash
  /\ undo' = IF ~interrupted /\ p = "preview"
             THEN [undo EXCEPT !.pipe_time = now] ELSE undo
  /\ UNCHANGED <<histvars, changed, timestamp, input_timestamp, loading,
                 input_changed, image_force_reload, image_invalid_cnt,
                 gui_leaving, imgid, history_mutex, dev_threadsafe, gui, dbvars,
                 nodes_hash, sync, savedvars>>

\* Full only: the back buffer is published, status = VALID, unlock
JobPublish(w) ==
  /\ job[w].pc = "publish"
  /\ status' = [status EXCEPT !["full"] = DT_DEV_PIXELPIPE_VALID]
  /\ loading' = [loading EXCEPT !["full"] = FALSE]
  /\ image_invalid_cnt' = 0
  /\ pipe_mutex' = [pipe_mutex EXCEPT !["full"] = Free]
  /\ held' = Release(w, "full")
  /\ job' = [job EXCEPT ![w] = IdleJob]
  /\ UNCHANGED <<histvars, changed, timestamp, input_timestamp, input_changed,
                 image_force_reload, gui_leaving, imgid, history_mutex,
                 dev_threadsafe, gui, dbvars, auxvars>>

(***************************************************************************)
(* The persisted history: dt_dev_write_history_ext and the part of         *)
(* dt_dev_read_history_ext that rebuilds dev->history from the rows.       *)
(***************************************************************************)
\* a row of memory.history as _dev_insert_module writes it: the default
\* parameters of module m, enabled
default_row(m) ==
  [module |-> m, params |-> module_default_params[m], enabled |-> TRUE,
   focus_hash |-> 0, iop_order |-> dt_ioppr_get_iop_order[m],
   multi_priority |-> 0, version |-> module_version[m], forms |-> FALSE]

\* dt_history_check_module_exists(imgid, op, FALSE): main.history has a row of op
dt_history_check_module_exists(rows, m) ==
  \E i \in 1..Len(rows) :
     rows[i].module \in ModuleIds /\ module_so[rows[i].module] = module_so[m]

\* _dev_add_default_modules: the default-enabled modules main.history lacks,
\* those that cannot be disabled first, NO_HISTORY_STACK ones left out
dev_add_default_modules(rows) ==
  LET missing(m) == /\ ~dt_history_check_module_exists(rows, m)
                    /\ module_default_enabled[m]
                    /\ ~module_no_history_stack[m]
      modules == [m \in ModuleIds |-> m]
      first == SelectIdx(modules, LAMBDA m : missing(m) /\ module_hide_enable_button[m])
      second == SelectIdx(modules, LAMBDA m : missing(m) /\ ~module_hide_enable_button[m])
  IN [i \in 1..(Len(first) + Len(second)) |->
        default_row((first \o second)[i])]

\* the rows of data.presets that auto-apply to the image: one preset of exposure
auto_presets ==
  << [module |-> 1, params |-> MaxParam, enabled |-> TRUE, focus_hash |-> 0,
      iop_order |-> dt_ioppr_get_iop_order[1], multi_priority |-> 0,
      version |-> module_version[1], forms |-> FALSE] >>

DT_IMAGE_AUTO_PRESETS_APPLIED == "AUTO_PRESETS_APPLIED"
DT_IMAGE_NO_LEGACY_PRESETS == "NO_LEGACY_PRESETS"

\* the resolver runs whatever the flags of the image say
dev_auto_apply_presets_always(flags) ==
  [first_run |-> TRUE, rows |-> auto_presets,
   flags |-> flags \cup {DT_IMAGE_AUTO_PRESETS_APPLIED, DT_IMAGE_NO_LEGACY_PRESETS}]

\* _dev_auto_apply_presets: nothing if the flag is set; else the matching
\* presets go to memory.history and the flag is set in the image cache
dev_auto_apply_presets(flags) ==
  LET run == DT_IMAGE_AUTO_PRESETS_APPLIED \notin flags
  IN [first_run |-> run,
      rows |-> IF run THEN auto_presets ELSE << >>,
      flags |-> IF run
                THEN flags \cup {DT_IMAGE_AUTO_PRESETS_APPLIED,
                                 DT_IMAGE_NO_LEGACY_PRESETS}
                ELSE flags]

\* _dev_merge_history: memory.history is prepended to main.history in three
\* statements; fail names the statement whose sqlite3_step fails, "none" if
\* all succeed ("shift": UPDATE main.history SET num = num + cnt, "end":
\* UPDATE main.images SET history_end = history_end + cnt, "insert": INSERT
\* INTO main.history SELECT ... FROM memory.history)
\* the num column stays as it was: the new rows come on top of the old ones
dev_merge_nums_unshifted(k, nums, fail) ==
  IF k = 0 \/ fail = "shift" THEN nums
  ELSE IF fail \in {"end", "insert"} THEN nums
  ELSE [i \in 1..k |-> i - 1] \o nums

\* _dev_merge_history on the num column of main.history, kept by rising num:
\* the k rows of memory.history are numbered from 0 (1979-2016), the rows of
\* main.history move up by k (2021-2027), and the rows of memory.history are
\* inserted (2046-2057) when no statement before has failed
dev_merge_nums(k, nums, fail) ==
  IF k = 0 \/ fail = "shift" THEN nums
  ELSE IF fail \in {"end", "insert"} THEN [i \in 1..Len(nums) |-> nums[i] + k]
  ELSE [i \in 1..k |-> i - 1] \o [i \in 1..Len(nums) |-> nums[i] + k]

\* num as _dev_write_history_item writes it: the place of the entry, from 0
written_nums(rows) == [i \in 1..Len(rows) |-> i - 1]

dev_merge_history(mem, rows, end, fail) ==
  IF Len(mem) = 0 \/ fail \in {"shift", "end"}
  THEN [rows |-> rows, history_end |-> end]
  ELSE [rows |-> IF fail = "insert" THEN rows ELSE mem \o rows,
        history_end |-> end + Len(mem)]

\* the force-enable of always-on modules is left out
row_enabled_as_stored(row) == row.enabled

\* dt_iop_legacy_params(module, old_params, old_params_size, old_version,
\* &new_params, new_version), of iop.c, which calls the legacy_params of the
\* module: the modules here convert the bytes of version 1 and refuse
\* those of any other version (the call returns 1)
dt_iop_legacy_params(m, bytes, version) ==
  [failed |-> version # 1,
   params |-> (bytes + 1) % (MaxParam + 1)]

\* lines 2386-2398: the parameters of the row hold when its version is the one
\* of the module
row_is_legacy(row) == row.version # module_version[row.module]

\* lines 2434-2443: a disabled row of flip of version 1 is enabled with the
\* default parameters
row_is_old_flip(row) ==
  /\ row_is_legacy(row)
  /\ module_so[row.module] = "flip" /\ ~row.enabled /\ row.version = 1

\* a row whose parameters cannot be converted is read as it is
row_dropped_if_unusable(row) ==
  \/ row.module \notin ModuleIds
  \/ module_no_history_stack[row.module]

\* the rows that make no entry: the operation is not installed (2301-2309), the
\* module is NO_HISTORY_STACK (2319-2324), or the parameters are of another
\* version and dt_iop_legacy_params fails (2400-2421)
row_dropped(row) ==
  \/ row.module \notin ModuleIds
  \/ module_no_history_stack[row.module]
  \/ /\ row_is_legacy(row)
     /\ dt_iop_legacy_params(row.module, row.params, row.version).failed

\* the bytes of the row are taken as they are
row_params_as_stored(row) == row.params

\* lines 2386-2443: hist->params
row_params(row) ==
  IF ~row_is_legacy(row) THEN row.params
  ELSE IF row_is_old_flip(row) THEN module_default_params[row.module]
  ELSE dt_iop_legacy_params(row.module, row.params, row.version).params

\* lines 2447-2449: make sure that always-on modules are always on; 2434-2443
\* for flip
row_enabled(row) ==
  IF module_default_enabled[row.module] /\ module_hide_enable_button[row.module]
  THEN TRUE
  ELSE IF row_is_old_flip(row) THEN TRUE
  ELSE row.enabled

\* one entry per row of main.history, appended to dev->history; rows of
\* NO_HISTORY_STACK modules are skipped (2319-2324), the rank is looked up
\* (2246), the multi_priority of a ONE_INSTANCE module is 0 (2352-2354), the
\* focus hash is not persisted
read_rows(h, rows) ==
  LET kept == SelectIdx(rows, LAMBDA i : ~row_dropped(rows[i]))
  IN h \o [i \in 1..Len(kept) |->
             [kept[i] EXCEPT
                !.enabled = row_enabled(kept[i]),
                !.params = row_params(kept[i]),
                !.version = module_version[kept[i].module],
                !.multi_priority = IF module_one_instance[kept[i].module]
                                   THEN 0 ELSE @,
                !.iop_order = dt_ioppr_get_iop_order[kept[i].module],
                !.focus_hash = 0]]

\* lines 2361-2363: the rank of a module follows its active entries; n is
\* dev->history_end, the entries appended so far
RECURSIVE read_iop_order(_, _, _, _, _)
read_iop_order(ms, rows, i, n, end) ==
  IF i < Len(rows)
  THEN read_iop_order(IF end > n
                      THEN [ms EXCEPT ![rows[i + 1].module].iop_order = rows[i + 1].iop_order]
                      ELSE ms,
                      rows, i + 1, IF row_dropped(rows[i + 1]) THEN n ELSE n + 1, end)
  ELSE ms

\* dt_dev_read_history_ext from the query of main.history on (2169-2479)
dt_dev_read_history_ext(h, ms, rows, end) ==
  [history |-> read_rows(h, rows),
   history_end |-> end,
   mods |-> read_iop_order(ms, SelectIdx(rows, LAMBDA i :
                                 /\ rows[i].module \in ModuleIds
                                 /\ ~module_no_history_stack[rows[i].module]),
                           0, 0, end)]

\* dt_dev_read_history: the defaults and the presets are merged into
\* main.history, the rows are read into dev->history, and _dev_write_history
\* writes dev->history back to main.history
dt_dev_read_history(h, ms, rows, end, flags, fail) ==
  LET defaults == dev_add_default_modules(rows)
      presets == dev_auto_apply_presets(flags)
      merged == dev_merge_history(defaults \o presets.rows, rows, end, fail)
      r == dt_dev_read_history_ext(h, ms, merged.rows, merged.history_end)
  IN [history |-> r.history, history_end |-> r.history_end, mods |-> r.mods,
      db_history |-> dev_write_history(r.history),
      db_history_end |-> merged.history_end,
      image_flags |-> presets.flags,
      first_run |-> presets.first_run,
      prepended |-> IF merged.rows = rows THEN << >> ELSE defaults \o presets.rows,
      presets |-> presets.rows,
      merged |-> [k |-> Len(defaults \o presets.rows), fail |-> fail,
                  nums0 |-> written_nums(rows), end0 |-> end,
                  nums |-> dev_merge_nums(Len(defaults \o presets.rows),
                                          written_nums(rows), fail),
                  history_end |-> merged.history_end,
                  rows |-> merged.rows,
                  legacy |-> \E i \in 1..Len(merged.rows) :
                                /\ ~row_dropped(merged.rows[i])
                                /\ row_is_legacy(merged.rows[i])]]

(***************************************************************************)
(* The GUI thread.  gui.pc is where it is in the operation it runs.        *)
(***************************************************************************)
GuiIdle == gui.pc = "idle" /\ imgid # 0 /\ ~gui_leaving

\* dt_dev_load_image_ext up to the lock of darktable.dev_threadsafe
GuiLoadImage ==
  /\ gui.pc = "idle" /\ imgid = 0
  /\ dev_threadsafe = Free
  /\ imgid' = 1
  /\ requested_id' = 1
  /\ loading' = [p \in Pipes |-> TRUE]
  /\ status' = all_dirty
  /\ dev_threadsafe' = GuiThread
  /\ held' = Acquire(GuiThread, "dev_threadsafe")
  /\ gui' = [gui EXCEPT !.pc = "load_read"]
  /\ UNCHANGED <<histvars, changed, timestamp, input_timestamp, input_changed,
                 image_force_reload, image_invalid_cnt, gui_leaving,
                 pipe_mutex, history_mutex, job, dbvars, hashvars, autosaving,
                 user_delay, now, last_save, autosaves, write_outcome, undo>>

\* dt_dev_read_history_ext and the unlock of darktable.dev_threadsafe
GuiLoadRead(fail) ==
  /\ gui.pc = "load_read"
  /\ \E r \in {dt_dev_read_history(history, mods, db_history, db_history_end,
                                   image_flags, fail)} :
       /\ history' = r.history
       /\ history_end' = r.history_end
       /\ mods' = r.mods
       /\ db_history' = r.db_history
       /\ db_history_end' = r.db_history_end
       /\ image_flags' = r.image_flags
       /\ presets_prepended' =
            Append(presets_prepended, r.presets # << >> /\ r.prepended # << >>)
       /\ last_merge' = r.merged
  /\ changed' = [p \in Pipes |-> changed[p] \cup DT_DEV_PIPE_SYNCH]
  /\ status' = all_dirty
  /\ timestamp' = timestamp + 1
  /\ dev_threadsafe' = Free
  /\ held' = Release(GuiThread, "dev_threadsafe")
  /\ gui' = IdleGui
  /\ iop' = << >>
  /\ undo' = read_history_undo(undo, TRUE, FALSE)
  /\ UNCHANGED <<focus_hash, last, input_timestamp, loading, input_changed,
                 image_force_reload, image_invalid_cnt, gui_leaving, imgid,
                 pipe_mutex, history_mutex, job, hashvars, savedvars>>

\* a callback of the GUI of module m writes the parameter bytes v into
\* module->params and calls dt_dev_add_history_item, which goes for
\* dev->history_mutex
\* with a target (dt_dev_add_history_item_target); renamed: the label that
\* _dev_auto_module_label gives the module differs from the one it had, and
\* the target is dropped; then _dev_undo_start_record_target
GuiAddCallTarget(m, v, cap, target, renamed) ==
  /\ GuiIdle
  /\ Len(history) < MaxEditLen
  /\ timestamp + 1 <= cap
  /\ mods' = [mods EXCEPT ![m].params = v]
  /\ undo' = [dev_undo_start_record_target(undo, now,
                                           IF renamed THEN 0 ELSE target)
                EXCEPT !.asked = target, !.renamed = renamed]
  /\ gui' = [gui EXCEPT !.pc = "add_lock", !.module = m]
  /\ UNCHANGED <<history, history_end, focus_hash, last, iop, changed, pipevars,
                 lockvars, job, dbvars, hashvars, savedvars>>

\* dt_dev_add_history_item: the target is NULL
GuiAddCall(m, v, cap) == GuiAddCallTarget(m, v, cap, 0, FALSE)

\* the lock is taken and _dev_add_history_item_ext runs for the module, its
\* autosave included
GuiAddExt(enable, new_item, slow, refused) ==
  /\ gui.pc = "add_lock"
  /\ history_mutex = Free
  /\ \E r \in {dev_add_history_item_ext(history, history_end, mods, focus_hash,
                                        changed, gui.module, enable, new_item,
                                        FALSE, FALSE)} :
       /\ history' = r.history
       /\ history_end' = r.history_end
       /\ mods' = r.mods
       /\ changed' = r.changed
       /\ AutoSave(r.history, r.history_end, loading["full"], imgid, slow, refused)
  /\ history_mutex' = GuiThread
  /\ held' = Acquire(GuiThread, "history")
  /\ gui' = [gui EXCEPT !.pc = "add_inval"]
  /\ UNCHANGED <<focus_hash, last, iop, pipevars, pipe_mutex, dev_threadsafe, job,
                 hashvars>>

\* dt_dev_invalidate_all and the unlock that end dt_dev_add_history_item, then
\* dt_dev_undo_end_record when a record was started
GuiAddInvalidate ==
  /\ gui.pc = "add_inval"
  /\ status' = all_dirty
  /\ timestamp' = timestamp + 1
  /\ history_mutex' = Free
  /\ held' = Release(GuiThread, "history")
  /\ undo' = [(IF undo.need_end THEN dt_dev_undo_end_record(undo) ELSE undo)
                EXCEPT !.need_end = FALSE]
  /\ gui' = IdleGui
  /\ UNCHANGED <<histvars, changed, input_timestamp, loading, input_changed,
                 image_force_reload, image_invalid_cnt, gui_leaving, imgid,
                 pipe_mutex, dev_threadsafe, job, dbvars, hashvars, savedvars>>

\* dt_dev_pop_history_items(dev, cnt) is called; it goes for dev->history_mutex
GuiPopCall(cnt, cap) ==
  /\ GuiIdle
  /\ timestamp + 1 <= cap
  /\ gui' = [pc |-> "pop_lock", module |-> 0, cnt |-> cnt, next |-> "idle"]
  /\ UNCHANGED <<histvars, changed, pipevars, lockvars, job, dbvars, auxvars>>

\* module->iop_order of the modules of dev->iop: of the first instances, then
\* of the instances made by the duplication
ranks_of(ms, insts) ==
  [m \in ModuleIds |-> ms[m].iop_order] \o [i \in 1..Len(insts) |-> insts[i].iop_order]

\* dev->iop, which is kept sorted by iop_order (dt_sort_iop_by_order, 2946; the
\* sort of dt_ioppr_resync_modules_order): the modules by rising rank
dev_iop_order(ranks) ==
  SortSeq([i \in 1..Len(ranks) |-> i],
          LAMBDA a, b : \/ ranks[a] < ranks[b]
                        \/ ranks[a] = ranks[b] /\ a < b)

\* the order of the modules is taken not to change
dev_iop_unchanged(old, new) == FALSE

\* lines 1482 and 1498-1517: dev_iop is a copy of the list, its modules are
\* those of dev->iop; their iop_order is read after the pop, position by
\* position, in the list as it was and in the list as it is
dev_iop_changed(old, new) ==
  LET dev_iop == dev_iop_order(old)
      now_iop == dev_iop_order(new)
  IN \E i \in 1..Len(new) : new[now_iop[i]] # new[dev_iop[i]]

\* dt_dev_pixelpipe_rebuild, of pixelpipe_hb.c: REMOVE on the three pipelines
dt_dev_pixelpipe_rebuild(ch) == [p \in Pipes |-> ch[p] \cup DT_DEV_PIPE_REMOVE]

\* the lock is taken, dt_dev_pop_history_items_ext runs; SYNCH on the three
\* pipelines when the module list kept its order, a rebuild when not
GuiPopExt ==
  /\ gui.pc = "pop_lock"
  /\ history_mutex = Free
  /\ \E r \in {dt_dev_pop_history_items_ext(history, mods, gui.cnt)} :
       /\ history_end' = r.history_end
       /\ mods' = r.mods
       /\ changed' = IF dev_iop_changed(ranks_of(mods, iop),
                                        ranks_of(r.mods, pop_instances(iop)))
                     THEN dt_dev_pixelpipe_rebuild(changed)
                     ELSE [p \in Pipes |-> changed[p] \cup DT_DEV_PIPE_SYNCH]
  /\ history_mutex' = GuiThread
  /\ held' = Acquire(GuiThread, "history")
  /\ gui' = [gui EXCEPT !.pc = "pop_inval"]
  /\ iop' = pop_instances(iop)
  /\ UNCHANGED <<history, focus_hash, last, pipevars, pipe_mutex, dev_threadsafe,
                 job, dbvars, auxvars>>

\* the unlock is left out: the mutex stays with the thread
pop_unlock_missing(t) == [history_mutex |-> history_mutex, held |-> held]

\* dt_pthread_mutex_unlock(&dev->history_mutex) of dt_dev_pop_history_items
pop_unlock(t) == [history_mutex |-> Free, held |-> Release(t, "history")]

\* dt_dev_invalidate_all and the unlock that end dt_dev_pop_history_items
GuiPopInvalidate ==
  /\ gui.pc = "pop_inval"
  /\ status' = all_dirty
  /\ timestamp' = timestamp + 1
  /\ \E u \in {pop_unlock(GuiThread)} :
       /\ history_mutex' = u.history_mutex
       /\ held' = u.held
  /\ gui' = [pc |-> gui.next, module |-> 0, cnt |-> 0, next |-> "idle"]
  /\ UNCHANGED <<histvars, changed, input_timestamp, loading, input_changed,
                 image_force_reload, image_invalid_cnt, gui_leaving, imgid,
                 pipe_mutex, dev_threadsafe, job, dbvars, auxvars>>

\* dt_dev_reload_history_items up to its call of dt_dev_pop_history_items(dev, 0)
GuiReloadCall ==
  /\ GuiIdle
  /\ timestamp + 3 <= MaxTimestamp
  /\ focus_hash' = 0
  /\ gui' = [pc |-> "pop_lock", module |-> 0, cnt |-> 0, next |-> "reload_tail"]
  /\ UNCHANGED <<history, history_end, mods, last, iop, changed, pipevars, lockvars,
                 job, dbvars, auxvars>>

\* lines 1351-1361: remove unused history items, those from history_end on
GuiReloadTail ==
  /\ gui.pc = "reload_tail"
  /\ history' = SelectIdx(history, LAMBDA i : i <= history_end)
  /\ gui' = [gui EXCEPT !.pc = "reload_read"]
  /\ UNCHANGED <<history_end, mods, focus_hash, last, iop, changed, pipevars, lockvars,
                 job, dbvars, auxvars>>

\* dt_dev_read_history, then the call of dt_dev_pop_history_items(dev, history_end)
GuiReloadRead(fail) ==
  /\ gui.pc = "reload_read"
  /\ \E r \in {dt_dev_read_history(history, mods, db_history, db_history_end,
                                   image_flags, fail)} :
       /\ history' = r.history
       /\ history_end' = r.history_end
       /\ mods' = r.mods
       /\ db_history' = r.db_history
       /\ db_history_end' = r.db_history_end
       /\ image_flags' = r.image_flags
       /\ presets_prepended' =
            Append(presets_prepended, r.presets # << >> /\ r.prepended # << >>)
       /\ last_merge' = r.merged
       /\ gui' = [pc |-> "pop_lock", module |-> 0, cnt |-> r.history_end,
                   next |-> "idle"]
  /\ changed' = [p \in Pipes |-> changed[p] \cup DT_DEV_PIPE_SYNCH]
  /\ status' = all_dirty
  /\ timestamp' = timestamp + 1
  /\ undo' = read_history_undo(undo, TRUE, FALSE)
  /\ UNCHANGED <<focus_hash, last, iop, input_timestamp, loading, input_changed,
                 image_force_reload, image_invalid_cnt, gui_leaving, imgid,
                 lockvars, job, hashvars, savedvars>>

\* dt_dev_invalidate_all, called by the GUI on its own
GuiInvalidateAll(cap) ==
  /\ GuiIdle
  /\ timestamp + 1 <= cap
  /\ status' = all_dirty
  /\ timestamp' = timestamp + 1
  /\ UNCHANGED <<histvars, changed, input_timestamp, loading, input_changed,
                 image_force_reload, image_invalid_cnt, gui_leaving, imgid,
                 lockvars, job, gui, dbvars, auxvars>>

\* dt_dev_invalidate: the Full status is dirty, the timestamp grows and the
\* two previews take the new timestamp as that of their input
dt_dev_invalidate(st, ts, its) ==
  [status |-> [st EXCEPT !["full"] = DT_DEV_PIXELPIPE_DIRTY],
   timestamp |-> ts + 1,
   input_timestamp |-> [its EXCEPT !["preview"] = ts + 1,
                                   !["preview2"] = ts + 1]]

\* the Full pipeline is marked in place of the Preview
invalidate_full_for_preview(st, ts, its) == dt_dev_invalidate(st, ts, its)

\* dt_dev_invalidate_preview: the Preview status is dirty, the timestamp grows
\* and the Full and the Secondary pipeline take the new timestamp as that of
\* their input (dev->pipe and dev->preview2_pipe exist from dt_dev_init on)
dt_dev_invalidate_preview(st, ts, its) ==
  [status |-> [st EXCEPT !["preview"] = DT_DEV_PIXELPIPE_DIRTY],
   timestamp |-> ts + 1,
   input_timestamp |-> [its EXCEPT !["full"] = ts + 1,
                                   !["preview2"] = ts + 1]]

\* dt_dev_invalidate_preview, called by the GUI on its own
GuiInvalidatePreview(cap) ==
  /\ GuiIdle
  /\ timestamp + 1 <= cap
  /\ \E r \in {dt_dev_invalidate_preview(status, timestamp, input_timestamp)} :
       /\ status' = r.status
       /\ timestamp' = r.timestamp
       /\ input_timestamp' = r.input_timestamp
  /\ UNCHANGED <<histvars, changed, loading, input_changed,
                 image_force_reload, image_invalid_cnt, gui_leaving, imgid,
                 lockvars, job, gui, dbvars, auxvars>>

\* dt_dev_reload_image: the raw is read again, every pipeline is loading, the
\* Full pipeline is flagged SYNCH, then dt_dev_invalidate
GuiReloadImage(cap) ==
  /\ GuiIdle
  /\ timestamp + 1 <= cap
  /\ image_force_reload' = TRUE
  /\ loading' = [p \in Pipes |-> TRUE]
  /\ changed' = [changed EXCEPT !["full"] = @ \cup DT_DEV_PIPE_SYNCH]
  /\ \E r \in {dt_dev_invalidate(status, timestamp, input_timestamp)} :
       /\ status' = r.status
       /\ timestamp' = r.timestamp
       /\ input_timestamp' = r.input_timestamp
  /\ UNCHANGED <<histvars, input_changed, image_invalid_cnt, gui_leaving, imgid,
                 lockvars, job, gui, dbvars, auxvars>>

\* the darkroom is left: the kill switch is set
GuiLeave ==
  /\ GuiIdle
  /\ gui_leaving' = TRUE
  /\ UNCHANGED <<histvars, changed, status, timestamp, input_timestamp, loading,
                 input_changed, image_force_reload, image_invalid_cnt, imgid,
                 lockvars, job, gui, dbvars, auxvars>>

\* dt_dev_write_history
GuiWriteHistory(refused) ==
  /\ GuiIdle
  /\ \E w \in {dt_dev_write_history(history, history_end, db_history,
                                     db_history_end, refused)} :
       /\ db_history' = w.db_history
       /\ db_history_end' = w.db_history_end
       /\ write_outcome' = w.outcome
  /\ UNCHANGED <<histvars, changed, pipevars, lockvars, job, gui, image_flags,
                 presets_prepended, last_merge, hashvars, autosaving, user_delay, now,
                 last_save, requested_id, autosaves, undo>>

\* the jobs of the three pipelines on the workers of the pool, against the
\* edits of the GUI thread
NextRender ==
  \/ \E w \in Workers, p \in Pipes : JobStart(w, p)
  \/ \E w \in Workers : JobLock(w)
  \/ \E w \in Workers, avail \in BOOLEAN : JobGetBuf(w, avail)
  \/ \E w \in Workers : JobRestart(w)
  \/ \E w \in Workers : JobChangeLock(w)
  \/ \E w \in Workers : JobChange(w)
  \/ \E w \in Workers, interrupted \in BOOLEAN : JobProcess(w, interrupted)
  \/ \E w \in Workers : JobPublish(w)
  \/ GuiLoadImage
  \/ GuiLoadRead("none")
  \/ GuiAddCall(1, MaxParam, MaxRenderTimestamp)
  \/ \E new_item \in BOOLEAN : GuiAddExt(TRUE, new_item, FALSE, FALSE)
  \/ GuiAddInvalidate
  \/ \E cnt \in 0..1 : GuiPopCall(cnt, MaxRenderTimestamp)
  \/ GuiPopExt
  \/ GuiPopInvalidate
  \/ GuiInvalidateAll(MaxRenderTimestamp)
  \/ GuiLeave

SpecRender == Init /\ [][NextRender]_vars

\* the jobs of the three pipelines while the raw may not be there yet, against
\* invalidations of the GUI thread
NextRaw ==
  \/ \E w \in Workers, p \in Pipes : JobStart(w, p)
  \/ \E w \in Workers : JobLock(w)
  \/ \E w \in Workers, avail \in BOOLEAN : JobGetBufCap(w, avail, MaxRawCnt)
  \/ \E w \in Workers : JobRestart(w)
  \/ \E w \in Workers : JobChangeLock(w)
  \/ \E w \in Workers : JobChange(w)
  \/ \E w \in Workers, interrupted \in BOOLEAN : JobProcess(w, interrupted)
  \/ \E w \in Workers : JobPublish(w)
  \/ GuiLoadImage
  \/ GuiLoadRead("none")
  \/ GuiInvalidateAll(MaxRenderTimestamp)
  \/ GuiInvalidatePreview(MaxRenderTimestamp)
  \/ GuiLeave

SpecRaw == Init /\ [][NextRaw]_vars

\* the jobs of the three pipelines on one worker, against the GUI thread that
\* has the image read again
NextReload ==
  \/ \E p \in Pipes : JobStart(1, p)
  \/ JobLock(1)
  \/ \E avail \in BOOLEAN : JobGetBuf(1, avail)
  \/ JobRestart(1)
  \/ JobChangeLock(1)
  \/ JobChange(1)
  \/ \E interrupted \in BOOLEAN : JobProcess(1, interrupted)
  \/ JobPublish(1)
  \/ GuiLoadImage
  \/ GuiLoadRead("none")
  \/ GuiReloadImage(MaxTimestamp)
  \/ GuiInvalidateAll(MaxTimestamp)
  \/ GuiLeave

SpecReload == Init /\ [][NextReload]_vars

\* a job that was started runs to its end: its thread is scheduled, the
\* mutexes it waits for are released by their owners, dt_mipmap_cache_get and
\* dt_dev_pixelpipe_process return
FairExit ==
  /\ WF_vars(JobLock(1))
  /\ WF_vars(\E avail \in BOOLEAN : JobGetBuf(1, avail))
  /\ WF_vars(JobRestart(1))
  /\ WF_vars(JobChangeLock(1))
  /\ WF_vars(JobChange(1))
  /\ WF_vars(\E interrupted \in BOOLEAN : JobProcess(1, interrupted))
  /\ WF_vars(JobPublish(1))

SpecExit == Init /\ [][NextReload]_vars /\ FairExit

\* every operation of the GUI thread on the history, against one Full job
NextEdit ==
  \/ JobStart(1, "full")
  \/ JobLock(1)
  \/ \E avail \in BOOLEAN : JobGetBuf(1, avail)
  \/ JobRestart(1)
  \/ JobChangeLock(1)
  \/ JobChange(1)
  \/ \E interrupted \in BOOLEAN : JobProcess(1, interrupted)
  \/ JobPublish(1)
  \/ GuiLoadImage
  \/ GuiLoadRead("none")
  \/ GuiAddCall(1, MaxParam, MaxTimestamp)
  \/ \E new_item \in BOOLEAN : GuiAddExt(TRUE, new_item, FALSE, FALSE)
  \/ GuiAddInvalidate
  \/ \E cnt \in 0..MaxEditLen : GuiPopCall(cnt, MaxTimestamp)
  \/ GuiPopExt
  \/ GuiPopInvalidate
  \/ GuiReloadCall
  \/ GuiReloadTail
  \/ GuiReloadRead("none")
  \/ GuiInvalidateAll(MaxTimestamp)
  \/ GuiLeave
  \/ GuiWriteHistory(FALSE)

SpecEdit == Init /\ [][NextEdit]_vars

(***************************************************************************)
(* dt_dev_sync_pixelpipe_hash on the Preview, called by the GUI thread.     *)
(***************************************************************************)
\* pixelpipe_synchronization_timeout: the polls of one wait
nloop == MaxNloop

\* the flags that make a wait that timed out ask for a redraw
history_changed_flags ==
  DT_DEV_PIPE_TOP_CHANGED \cup DT_DEV_PIPE_REMOVE \cup DT_DEV_PIPE_SYNCH

\* dt_dev_sync_pixelpipe_hash(dev, dev->preview_pipe, 0, DIR_ALL, lock, hash)
\* is entered; stale: a Preview has completed, the history has been changed
\* since and no Preview is running
\* since and no Preview is running; nl: what the configuration has for
\* pixelpipe_synchronization_timeout, a value that is not positive ends the
\* wait with TRUE at once (3262)
GuiSyncCall(nl) ==
  /\ GuiIdle
  /\ sync' = [n |-> 0, probe |-> << >>,
              result |-> IF nl <= 0 THEN "ok" ELSE "none",
              stale |-> /\ gui_hash # dt_dev_hash_plus(NoNodes)
                        /\ changed["preview"] # DT_DEV_PIPE_UNCHANGED
                        /\ \A w \in Workers :
                             job[w].pc = "idle" \/ job[w].pipe # "preview",
              nloop |-> nl,
              why |-> IF nl <= 0 THEN "omitted" ELSE "none",
              flags |-> {}]
  /\ gui' = IF nl <= 0 THEN gui ELSE [gui EXCEPT !.pc = "sync_probe"]
  /\ UNCHANGED <<histvars, changed, pipevars, lockvars, job, dbvars, nodes_hash,
                 gui_hash, savevars>>

\* dt_dev_wait_hash, head of the loop: after nloop polls the wait has timed
\* out; else pipe->shutdown, which other threads set, is read: when set the
\* wait ends with TRUE; else *hash is read under the lock of the caller
GuiSyncProbe(shutdown) ==
  /\ gui.pc = "sync_probe"
  /\ IF sync.n >= sync.nloop
     THEN /\ gui' = [gui EXCEPT !.pc = "sync_timeout"]
          /\ UNCHANGED sync
     ELSE IF shutdown
     THEN /\ sync' = [sync EXCEPT !.result = "ok", !.why = "shutdown"]
          /\ gui' = IdleGui
     ELSE /\ sync' = [sync EXCEPT !.probe = gui_hash]
          /\ gui' = [gui EXCEPT !.pc = "sync_hash"]
  /\ UNCHANGED <<histvars, changed, pipevars, lockvars, job, dbvars, nodes_hash,
                 gui_hash, savevars>>

\* dt_dev_hash_plus under dev->history_mutex; a match returns TRUE, else
\* dt_iop_nap and the next poll
GuiSyncHash ==
  /\ gui.pc = "sync_hash"
  /\ history_mutex = Free
  /\ IF sync.probe = dt_dev_hash_plus(nodes_hash["preview"])
     THEN /\ sync' = [sync EXCEPT !.result = "ok", !.why = "match"]
          /\ gui' = IdleGui
     ELSE /\ sync' = [sync EXCEPT !.n = @ + 1]
          /\ gui' = [gui EXCEPT !.pc = "sync_probe"]
  /\ UNCHANGED <<histvars, changed, pipevars, lockvars, job, dbvars, nodes_hash,
                 gui_hash, savevars>>

\* a wait that timed out is no failure when the pipeline has one of the flags
\* of a changed history: the redraw is queued and TRUE returned (3305-3311)
sync_timed_out_fails(flags) == "timed_out"
sync_timed_out(flags) ==
  IF flags \cap history_changed_flags # {} THEN "ok_redraw" ELSE "timed_out"

\* dt_dev_sync_pixelpipe_hash after the wait timed out: with a change flagged
\* on the pipeline a redraw is queued and TRUE returned, else FALSE
GuiSyncTimeout ==
  /\ gui.pc = "sync_timeout"
  /\ sync' = [sync EXCEPT !.result = sync_timed_out(changed["preview"]),
                            !.why = "timeout",
                            !.flags = changed["preview"]]
  /\ gui' = IdleGui
  /\ UNCHANGED <<histvars, changed, pipevars, lockvars, job, dbvars, nodes_hash,
                 gui_hash, savevars>>

\* one worker runs the Full and the Preview job, the GUI thread loads, edits
\* and waits for the hash of the Preview
NextHash ==
  \/ \E p \in {"full", "preview"} : JobStart(1, p)
  \/ JobLock(1)
  \/ \E avail \in BOOLEAN : JobGetBuf(1, avail)
  \/ JobRestart(1)
  \/ JobChangeLock(1)
  \/ JobChange(1)
  \/ \E interrupted \in BOOLEAN : JobProcess(1, interrupted)
  \/ JobPublish(1)
  \/ GuiLoadImage
  \/ GuiLoadRead("none")
  \/ \E v \in 0..MaxParam : GuiAddCall(1, v, MaxRenderTimestamp)
  \/ \E new_item \in BOOLEAN : GuiAddExt(TRUE, new_item, FALSE, FALSE)
  \/ GuiAddInvalidate
  \/ GuiSyncCall(nloop)
  \/ GuiSyncProbe(FALSE)
  \/ GuiSyncHash
  \/ GuiSyncTimeout

SpecHash == Init /\ [][NextHash]_vars

\* the same, with any configured timeout and a pipeline that may be shut down
\* while the GUI thread waits
NextWait ==
  \/ \E p \in {"full", "preview"} : JobStart(1, p)
  \/ JobLock(1)
  \/ \E avail \in BOOLEAN : JobGetBuf(1, avail)
  \/ JobRestart(1)
  \/ JobChangeLock(1)
  \/ JobChange(1)
  \/ \E interrupted \in BOOLEAN : JobProcess(1, interrupted)
  \/ JobPublish(1)
  \/ GuiLoadImage
  \/ GuiLoadRead("none")
  \/ GuiAddCall(1, MaxParam, MaxRenderTimestamp)
  \/ GuiAddExt(TRUE, FALSE, FALSE, FALSE)
  \/ GuiAddInvalidate
  \/ \E nl \in (0 - MaxNegNloop)..MaxNloop : GuiSyncCall(nl)
  \/ \E shutdown \in BOOLEAN : GuiSyncProbe(shutdown)
  \/ GuiSyncHash
  \/ GuiSyncTimeout

SpecWait == Init /\ [][NextWait]_vars

(***************************************************************************)
(* Progress of the Preview: one worker, the mipmap of the Preview always    *)
(* there, the raw of the Full there or not.                                *)
(***************************************************************************)
\* dt_mipmap_cache_get of the Preview always returns a buffer
JobGetBufPreviewThere ==
  \E avail \in BOOLEAN :
     /\ (job[1].pc # "idle" /\ job[1].pipe = "preview") => avail
     /\ JobGetBuf(1, avail)

NextLive ==
  \/ \E p \in {"full", "preview"} : JobStart(1, p)
  \/ JobLock(1)
  \/ JobGetBufPreviewThere
  \/ JobRestart(1)
  \/ JobChangeLock(1)
  \/ JobChange(1)
  \/ \E interrupted \in BOOLEAN : JobProcess(1, interrupted)
  \/ JobPublish(1)
  \/ GuiLoadImage
  \/ GuiLoadRead("none")
  \/ GuiAddCall(1, MaxParam, MaxRenderTimestamp)
  \/ \E new_item \in BOOLEAN : GuiAddExt(TRUE, new_item, FALSE, FALSE)
  \/ GuiAddInvalidate

\* the image gets loaded, an operation of the GUI thread and a job that were
\* begun run to their end, and the Preview job is queued again and again; the
\* Full job need not be queued again
FairLive ==
  /\ WF_vars(GuiLoadImage)
  /\ WF_vars(GuiLoadRead("none"))
  /\ WF_vars(\E new_item \in BOOLEAN : GuiAddExt(TRUE, new_item, FALSE, FALSE))
  /\ WF_vars(GuiAddInvalidate)
  /\ WF_vars(JobStart(1, "preview"))
  /\ WF_vars(JobLock(1))
  /\ WF_vars(JobGetBufPreviewThere)
  /\ WF_vars(JobRestart(1))
  /\ WF_vars(JobChangeLock(1))
  /\ WF_vars(JobChange(1))
  /\ WF_vars(\E interrupted \in BOOLEAN : JobProcess(1, interrupted))
  /\ WF_vars(JobPublish(1))

SpecLive == Init /\ [][NextLive]_vars /\ FairLive

(***************************************************************************)
(* Autosave: the darkroom has switched it on or not, the clock advances     *)
(* between the edits, the Full job runs beside them.                       *)
(***************************************************************************)
InitSave ==
  /\ InitCore
  /\ autosaving \in BOOLEAN
  /\ user_delay \in 0..MaxDelay
  /\ db_history = << stored_row >>
  /\ db_history_end = 1
  /\ image_flags = {}

\* a second passes on the wall clock
Tick ==
  /\ now < MaxNow
  /\ now' = now + 1
  /\ UNCHANGED <<histvars, changed, pipevars, lockvars, job, gui, dbvars,
                 hashvars, autosaving, user_delay, last_save, requested_id,
                 autosaves, write_outcome, undo>>

NextSave ==
  \/ JobStart(1, "full")
  \/ JobLock(1)
  \/ \E avail \in BOOLEAN : JobGetBuf(1, avail)
  \/ JobRestart(1)
  \/ JobChangeLock(1)
  \/ JobChange(1)
  \/ \E interrupted \in BOOLEAN : JobProcess(1, interrupted)
  \/ JobPublish(1)
  \/ GuiLoadImage
  \/ GuiLoadRead("none")
  \/ \E v \in 0..MaxParam : GuiAddCall(1, v, MaxTimestamp)
  \/ \E new_item \in BOOLEAN, slow \in BOOLEAN : GuiAddExt(TRUE, new_item, slow, FALSE)
  \/ GuiAddInvalidate
  \/ Tick

SpecSave == InitSave /\ [][NextSave]_vars

\* edits of one module driven by widgets, under the clock, with the Full and
\* the Preview job beside them
NextUndo ==
  \/ \E p \in {"full", "preview"} : JobStart(1, p)
  \/ JobLock(1)
  \/ JobGetBuf(1, TRUE)
  \/ JobRestart(1)
  \/ JobChangeLock(1)
  \/ JobChange(1)
  \/ JobProcess(1, FALSE)
  \/ JobPublish(1)
  \/ GuiLoadImage
  \/ GuiLoadRead("none")
  \/ \E target \in Targets, renamed \in BOOLEAN :
       GuiAddCallTarget(1, MaxParam, MaxTimestamp, target, renamed)
  \/ GuiAddExt(TRUE, FALSE, FALSE, FALSE)
  \/ GuiAddInvalidate
  \/ Tick

SpecUndo == Init /\ [][NextUndo]_vars

\* autosave on with an interval of one second, and a store that may refuse
\* the writes of an autosave and of dt_dev_write_history
InitRefuse ==
  /\ InitCore
  /\ autosaving = TRUE
  /\ user_delay = 1
  /\ db_history = << stored_row >>
  /\ db_history_end = 1
  /\ image_flags = {}

NextRefuse ==
  \/ JobStart(1, "full")
  \/ JobLock(1)
  \/ \E avail \in BOOLEAN : JobGetBuf(1, avail)
  \/ JobRestart(1)
  \/ JobChangeLock(1)
  \/ JobChange(1)
  \/ \E interrupted \in BOOLEAN : JobProcess(1, interrupted)
  \/ JobPublish(1)
  \/ GuiLoadImage
  \/ GuiLoadRead("none")
  \/ \E v \in 0..MaxParam : GuiAddCall(1, v, MaxTimestamp)
  \/ \E new_item \in BOOLEAN, refused \in BOOLEAN :
       GuiAddExt(TRUE, new_item, FALSE, refused)
  \/ GuiAddInvalidate
  \/ \E refused \in BOOLEAN : GuiWriteHistory(refused)
  \/ Tick

SpecRefuse == InitRefuse /\ [][NextRefuse]_vars

\* appends that reach the pipelines, and pops
NextCoalesce ==
  \/ \E m \in ModuleIds, v \in 0..MaxParam, f \in 0..MaxFocus,
        enable \in BOOLEAN, new_item \in BOOLEAN :
       AddHistoryItemExt(m, v, f, enable, new_item, FALSE, FALSE)
  \/ \E cnt \in 0..MaxPop : PopHistoryItemsExt(cnt)

SpecCoalesce == Init /\ [][NextCoalesce]_vars

\* rows of main.history that another version of the program or another
\* installation wrote: of exposure in version 1, of exposure in a version that
\* cannot be converted, of flip in version 1 and disabled, and of an operation
\* that is not installed
old_exposure_row == [stored_row EXCEPT !.version = 1, !.params = MaxParam]

unreadable_exposure_row == [stored_row EXCEPT !.version = 0, !.params = MaxParam]

old_flip_row == [default_row(3) EXCEPT !.version = 1, !.enabled = FALSE,
                                       !.params = MaxParam]

uninstalled_row == [stored_row EXCEPT !.module = UninstalledOp]

InitLegacy ==
  /\ InitDev
  /\ db_history \in { << old_exposure_row >>,
                       << unreadable_exposure_row, stored_row, uninstalled_row >>,
                       << old_flip_row, old_exposure_row >> }
  /\ db_history_end = Len(db_history)
  /\ image_flags \in { {}, {DT_IMAGE_AUTO_PRESETS_APPLIED, DT_IMAGE_NO_LEGACY_PRESETS} }

\* loads, reloads and edits of an image with such rows
NextLegacy ==
  \/ GuiLoadImage
  \/ GuiLoadRead("none")
  \/ \E m \in {1, 2}, v \in 0..MaxParam : GuiAddCall(m, v, MaxTimestamp)
  \/ \E enable \in BOOLEAN, new_item \in BOOLEAN : GuiAddExt(enable, new_item, FALSE, FALSE)
  \/ GuiAddInvalidate
  \/ GuiPopExt
  \/ GuiPopInvalidate
  \/ GuiReloadCall
  \/ GuiReloadTail
  \/ GuiReloadRead("none")

SpecLegacy == InitLegacy /\ [][NextLegacy]_vars

\* a row of colorin, which is ONE_INSTANCE, that was stored with a
\* multi_priority of 1
multi_colorin_row == [default_row(2) EXCEPT !.multi_priority = 1]

InitDup ==
  /\ InitDev
  /\ db_history \in { << stored_row >>, << stored_row, multi_colorin_row >> }
  /\ db_history_end = Len(db_history)
  /\ image_flags = {}

\* the history and the instances of the modules: load, append, pop and
\* duplication
NextDup ==
  \/ \E m \in {1, 2}, v \in 0..MaxParam, new_item \in BOOLEAN :
       AddHistoryItemExt(m, v, 0, TRUE, new_item, TRUE, FALSE)
  \/ \E cnt \in 0..MaxPop : PopHistoryItemsExt(cnt)
  \/ \E base \in ModuleIds : DuplicateModule(base)
  \/ GuiLoadImage
  \/ GuiLoadRead("none")

SpecDup == InitDup /\ [][NextDup]_vars

\* dt_dev_module_duplicate as the GUI calls it: of a module that may have
\* several instances
GuiDuplicate(base) ==
  /\ GuiIdle
  /\ ~module_one_instance[base]
  /\ DuplicateModule(base)

(***************************************************************************)
(* The persisted history: loads, reloads, edits and writes of the GUI      *)
(* thread with no job running, on images with several stored histories.    *)
(***************************************************************************)
\* rows an older version left in main.history: colorin stored as disabled, and
\* a row of gamma
legacy_colorin_row == [default_row(2) EXCEPT !.enabled = FALSE, !.params = MaxParam]

legacy_gamma_row == default_row(4)

\* the image is new or was opened before, and comes with one of some histories
InitLoad ==
  /\ InitDev
  /\ db_history \in { << >>, << stored_row >>, << legacy_colorin_row >>,
                       << legacy_gamma_row, stored_row >> }
  /\ db_history_end = Len(db_history)
  /\ image_flags \in { {}, {DT_IMAGE_AUTO_PRESETS_APPLIED, DT_IMAGE_NO_LEGACY_PRESETS} }

MergeFailures == {"none", "shift", "end", "insert"}

NextLoad ==
  \/ GuiLoadImage
  \/ \E fail \in MergeFailures : GuiLoadRead(fail)
  \/ \E m \in {1, 2}, v \in 0..MaxParam : GuiAddCall(m, v, MaxTimestamp)
  \/ \E enable \in BOOLEAN, new_item \in BOOLEAN : GuiAddExt(enable, new_item, FALSE, FALSE)
  \/ GuiAddInvalidate
  \/ \E cnt \in 0..MaxEditLen : GuiPopCall(cnt, MaxTimestamp)
  \/ GuiPopExt
  \/ GuiPopInvalidate
  \/ GuiReloadCall
  \/ GuiReloadTail
  \/ \E fail \in MergeFailures : GuiReloadRead(fail)
  \/ GuiWriteHistory(FALSE)

SpecLoad == InitLoad /\ [][NextLoad]_vars

\* the image is open in the darkroom: dt_dev_load_image has read one of the
\* histories above and dt_dev_pop_history_items(dev, dev->history_end) has
\* replayed it, every statement of the database succeeding
InitStore ==
  \E rows \in { << >>, << stored_row >>, << legacy_colorin_row >>,
                << legacy_gamma_row, stored_row >> },
     flags \in { {}, {DT_IMAGE_AUTO_PRESETS_APPLIED, DT_IMAGE_NO_LEGACY_PRESETS} } :
    \E r \in {dt_dev_read_history(<< >>, [m \in ModuleIds |-> reset_module(m)],
                                    rows, Len(rows), flags, "none")} :
      \E p \in {dt_dev_pop_history_items_ext(r.history, r.mods, r.history_end)} :
        /\ history = r.history
        /\ history_end = p.history_end
        /\ mods = p.mods
        /\ iop = << >>
        /\ focus_hash = 0
        /\ changed = [q \in Pipes |-> DT_DEV_PIPE_UNCHANGED \cup DT_DEV_PIPE_SYNCH]
        /\ last = NoOp
        /\ status = all_dirty
        /\ timestamp = 2
        /\ input_timestamp = [q \in Pipes |-> 0]
        /\ loading = [q \in Pipes |-> TRUE]
        /\ input_changed = [q \in Pipes |-> FALSE]
        /\ image_force_reload = FALSE
        /\ image_invalid_cnt = 0
        /\ gui_leaving = FALSE
        /\ imgid = 1
        /\ pipe_mutex = [q \in Pipes |-> Free]
        /\ history_mutex = Free
        /\ dev_threadsafe = Free
        /\ held = [t \in Threads |-> << >>]
        /\ job = [w \in Workers |-> IdleJob]
        /\ gui = IdleGui
        /\ db_history = r.db_history
        /\ db_history_end = r.db_history_end
        /\ image_flags = r.image_flags
        /\ presets_prepended = << r.presets # << >> /\ r.prepended # << >> >>
        /\ last_merge = r.merged
        /\ nodes_hash = [q \in Pipes |-> NoNodes]
        /\ gui_hash = dt_dev_hash_plus(NoNodes)
        /\ sync = NoSync
        /\ autosaving = FALSE
        /\ user_delay = MaxDelay
        /\ now = MaxDelay + 1
        /\ last_save = 0
        /\ requested_id = 1
        /\ autosaves = << >>
        /\ write_outcome = NoWrite
        /\ undo = NoUndo

\* appends, pops and writes of the history of the open image
NextStore ==
  \/ \E m \in {1, 2}, v \in 0..MaxParam : GuiAddCall(m, v, MaxTimestamp)
  \/ \E enable \in BOOLEAN, new_item \in BOOLEAN : GuiAddExt(enable, new_item, FALSE, FALSE)
  \/ GuiAddInvalidate
  \/ \E cnt \in 0..MaxEditLen : GuiPopCall(cnt, MaxTimestamp)
  \/ GuiPopExt
  \/ GuiPopInvalidate
  \/ GuiWriteHistory(FALSE)

SpecStore == InitStore /\ [][NextStore]_vars

\* edits, pops and duplications on the image that was read and replayed
NextPop ==
  \/ \E m \in {1, 2}, v \in 0..MaxParam : GuiAddCall(m, v, MaxTimestamp)
  \/ \E enable \in BOOLEAN, new_item \in BOOLEAN :
       GuiAddExt(enable, new_item, FALSE, FALSE)
  \/ GuiAddInvalidate
  \/ \E cnt \in 0..MaxEditLen : GuiPopCall(cnt, MaxTimestamp)
  \/ GuiPopExt
  \/ GuiPopInvalidate
  \/ \E base \in ModuleIds : GuiDuplicate(base)

SpecPop == InitStore /\ [][NextPop]_vars

(***************************************************************************)
(* Properties of the render jobs and of the locks.                         *)
(***************************************************************************)
\* worker w is in a run: between "status set to RUNNING" and its return
InRun(w) == job[w].pc \in {"getbuf", "restart", "change", "changing", "process",
                           "publish"}

\* C1: a run of any of the three pipelines never sets that pipeline's status to
\* VALID while its change-flag, raised by an edit during the run, is pending
C1_NoValidWhilePending ==
  [][\A p \in Pipes :
       (status'[p] = DT_DEV_PIXELPIPE_VALID /\ status[p] # DT_DEV_PIXELPIPE_VALID)
         => changed[p] = DT_DEV_PIPE_UNCHANGED]_vars

\* C2: once gui_leaving is set, no run of any pipeline sets its status to VALID
C2_NoValidAfterLeaving ==
  [][gui_leaving =>
       \A p \in Pipes : status'[p] = DT_DEV_PIXELPIPE_VALID
                          => status[p] = DT_DEV_PIXELPIPE_VALID]_vars

\* C3: a Full run sets VALID only if no dt_dev_invalidate_all came since it
\* last passed the restart label and took the timestamp: the DIRTY an
\* invalidation writes is not overwritten by a VALID from the older state
C3_NoValidOverInvalidation ==
  [][(status'["full"] = DT_DEV_PIXELPIPE_VALID
      /\ status["full"] # DT_DEV_PIXELPIPE_VALID)
       => (input_timestamp["full"] = timestamp
           /\ status["full"] = DT_DEV_PIXELPIPE_RUNNING)]_vars

\* C4: for each pipeline at most one worker is in a run, and it owns the
\* pipeline's mutex from before RUNNING until after its final status
C4_OneRunPerPipeline ==
  /\ \A w \in Workers : InRun(w) <=> (\E p \in Pipes : pipe_mutex[p] = w)
  /\ \A w \in Workers : InRun(w) => pipe_mutex[job[w].pipe] = w
  /\ \A w1, w2 \in Workers :
       (InRun(w1) /\ InRun(w2) /\ job[w1].pipe = job[w2].pipe) => w1 = w2

\* a second job of the same pipeline waits for the mutex while the first runs
C4_Witness ==
  \E w1, w2 \in Workers :
     /\ w1 # w2 /\ job[w1].pipe = job[w2].pipe
     /\ job[w1].pc = "process" /\ job[w2].pc = "lock"
     /\ status[job[w1].pipe] = DT_DEV_PIXELPIPE_RUNNING

\* the locks of held[t] were taken in increasing rank
TakenInOrder(t, rank(_)) ==
  \A i, j \in 1..Len(held[t]) : i < j => rank(held[t][i]) < rank(held[t][j])

\* the lock thread t is blocked on, "none" if it is not waiting
waits_for(t) ==
  IF t = GuiThread
  THEN IF gui.pc \in {"add_lock", "pop_lock"} THEN "history" ELSE "none"
  ELSE IF job[t].pc = "lock" THEN job[t].pipe
       ELSE IF job[t].pc = "change" THEN "history" ELSE "none"

owner(l) ==
  IF l = "history" THEN history_mutex
  ELSE IF l = "dev_threadsafe" THEN dev_threadsafe
  ELSE IF l \in Pipes THEN pipe_mutex[l] ELSE Free

\* the thread t waits for, Free if it waits for nobody
blocker(t) == IF t = Free THEN Free ELSE owner(waits_for(t))

RECURSIVE blocker_chain(_, _)
blocker_chain(t, k) == IF k = 0 THEN t ELSE blocker(blocker_chain(t, k - 1))

NoWaitCycle ==
  \A t \in Threads : \A k \in 1..Cardinality(Threads) : blocker_chain(t, k) # t

\* C5 as stated: locks are taken in the order dev_threadsafe, history mutex,
\* pipeline mutex (so never the history mutex under a pipeline mutex), and no
\* cycle of lock waits is reachable
C5_SpecLockOrder ==
  /\ \A t \in Threads :
       TakenInOrder(t, LAMBDA l : IF l = "dev_threadsafe" THEN 0
                                  ELSE IF l = "history" THEN 1 ELSE 2)
  /\ NoWaitCycle

\* C5 amended: locks are taken in the order dev_threadsafe, pipeline mutex,
\* history mutex: a thread that holds two locks is a worker that took the
\* history mutex under its pipeline mutex; nobody takes a pipeline mutex or
\* dev_threadsafe under the history mutex; no cycle of lock waits is reachable
C5_LockOrder ==
  /\ \A t \in Threads :
       TakenInOrder(t, LAMBDA l : IF l = "dev_threadsafe" THEN 0
                                  ELSE IF l = "history" THEN 2 ELSE 1)
  /\ held[GuiThread] \in {<< >>, <<"history">>, <<"dev_threadsafe">>}
  /\ \A w \in Workers : held[w] \in {<< >>} \cup {<<p>> : p \in Pipes}
                                     \cup {<<p, "history">> : p \in Pipes}
  /\ NoWaitCycle

\* a worker holds its pipeline mutex and, taken after it, the history mutex,
\* while the GUI thread waits for the history mutex
C5_Witness ==
  /\ gui.pc \in {"add_lock", "pop_lock"}
  /\ \E w \in Workers : held[w] = <<job[w].pipe, "history">> /\ history_mutex = w

\* C6: the history stack, the cursor and the live parameters of the modules
\* change only under the history mutex, so they do not change while a render
\* worker holds the history mutex for its node rebuild
C6_NoMutationUnderWorkerLock ==
  [][(history_mutex \in Workers)
       => (history' = history /\ history_end' = history_end /\ mods' = mods)]_vars

(***************************************************************************)
(* Properties of the history stack.                                        *)
(***************************************************************************)
\* the append of instance m carrying parameter bytes v under focus hash f,
\* applied to the develop state (h, he, ms)
append_to(h, he, ms, m, v, f, enable, new_item, include_masks) ==
  dev_add_history_item_ext(h, he, [ms EXCEPT ![m].params = v], f, changed,
                           m, enable, new_item, TRUE, include_masks)

\* C7: in every state reachable by appends and pop_to(n) calls, pop_to with n
\* larger than the number of entries included, 0 <= history_end <= len(history)
C7_CursorInRange == 0 <= history_end /\ history_end <= Len(history)

\* C8: two consecutive appends (new_item = false) of the same instance with
\* identical parameter bytes and the same focus hash leave one entry for them:
\* len(history) and history_end are the same after the second append as after
\* the first, and both are 1 when the history was empty
C8_Coalesce ==
  \A m \in ModuleIds, v \in 0..MaxParam, f \in 0..MaxFocus, e1, e2 \in BOOLEAN :
    \A a1 \in {append_to(history, history_end, mods, m, v, f, e1, FALSE, FALSE)} :
    \A a2 \in {append_to(a1.history, a1.history_end, a1.mods, m, v, f, e2, FALSE, FALSE)} :
       /\ Len(a2.history) = Len(a1.history)
       /\ a2.history_end = a1.history_end
       /\ a2.history[Len(a2.history)].module = m
       /\ a2.history[Len(a2.history)].params = v
       /\ (history = << >> /\ history_end = 0
             => Len(a2.history) = 1 /\ a2.history_end = 1)

\* a second append of the same instance, bytes and focus hash has updated the
\* single entry of a history that was empty
C8_Witness ==
  /\ last.op = "append" /\ last.rep = "same" /\ ~last.pushed
  /\ Len(history) = 1 /\ history_end = 1

\* what the item the cursor sits on is before the append writes, and whether
\* the append then updated it in place or pushed an entry after it
in_place(t, a) ==
  Len(a.history) = Len(t.history) /\ a.history_end = t.history_end

pushed_after(t, a, m) ==
  /\ Len(a.history) = Len(t.history) + 1
  /\ a.history_end = t.history_end + 1
  /\ a.history[Len(a.history)].module = m

\* C9 as claimed: the tail is replaced in place only when new_item is false,
\* the tail is of the same (type, instance-priority), its parameter bytes equal
\* the current ones and its focus hash the current one; otherwise a new entry
\* is pushed and history_end advances by one
C9_InPlaceOnlyIfIdentical ==
  \A m \in ModuleIds, v \in 0..MaxParam, f \in 0..MaxFocus,
     enable \in BOOLEAN, new_item \in BOOLEAN :
    \A t \in {truncate_history(history, history_end)} :
    \A a \in {append_to(history, history_end, mods, m, v, f, enable, new_item, FALSE)} :
    LET tail == g_list_nth(t.history, t.history_end - 1)
        same == /\ ~new_item /\ tail # NoItem
                /\ module_so[tail.module] = module_so[m]
                /\ tail.multi_priority = module_multi_priority[m]
                /\ tail.params = v /\ tail.focus_hash = f
    IN IF same THEN in_place(t, a) ELSE pushed_after(t, a, m)

\* C9 amended: the tail is replaced in place exactly when new_item is false,
\* the tail is of the same (type, instance-priority) and either its focus hash
\* is the current one, or its parameter bytes equal the current ones and no
\* masks are included; otherwise a new entry is pushed and history_end
\* advances by one
C9_InPlaceRule ==
  \A m \in ModuleIds, v \in 0..MaxParam, f \in 0..MaxFocus,
     enable \in BOOLEAN, new_item \in BOOLEAN, include_masks \in BOOLEAN :
    \A t \in {truncate_history(history, history_end)} :
    \A a \in {append_to(history, history_end, mods, m, v, f, enable, new_item,
                        include_masks)} :
    LET tail == g_list_nth(t.history, t.history_end - 1)
        same == /\ ~new_item /\ tail # NoItem
                /\ module_so[tail.module] = module_so[m]
                /\ tail.multi_priority = module_multi_priority[m]
                /\ \/ tail.focus_hash = f
                   \/ (tail.params = v /\ ~include_masks)
    IN IF same
       THEN in_place(t, a) /\ a.history[a.history_end].params = v
       ELSE pushed_after(t, a, m)

\* an append under the focus hash of the tail has written changed parameter
\* bytes into the tail in place
C9_Witness ==
  /\ last.op = "append" /\ last.rep = "params" /\ ~last.pushed
  /\ history_end = Len(history)
  /\ history[history_end].module = last.module

\* the result the undo tail-drop law asks for: h[0..n) followed by one entry
\* of D, cursor n + 1
tail_dropped(h, n, a, D, v) ==
  /\ a.history_end = n + 1
  /\ Len(a.history) = n + 1
  /\ SubSeq(a.history, 1, n) = SubSeq(h, 1, n)
  /\ a.history[n + 1].module = D
  /\ a.history[n + 1].params = v

pop_then_append(n, D, v, f, enable, new_item) ==
  LET p == dt_dev_pop_history_items_ext(history, mods, n)
  IN append_to(history, p.history_end, p.mods, D, v, f, enable, new_item, FALSE)

\* C10 as claimed: with the cursor at len(h), pop_to(n) then an append for an
\* instance D other than that of entry n-1, none of h[n..] being of an
\* always-on operation (DEFAULT_ENABLED and not HIDE_ENABLE_BUTTON), yields
\* h[0..n) followed by the entry of D, cursor n + 1
C10_TailDropAlwaysOn ==
  history_end = Len(history) =>
    \A n \in 1..Len(history), D \in ModuleIds, v \in 0..MaxParam,
       f \in 0..MaxFocus, enable \in BOOLEAN, new_item \in BOOLEAN :
      ( /\ D # history[n].module
        /\ \A i \in (n + 1)..Len(history) :
             ~(module_default_enabled[history[i].module]
               /\ ~module_hide_enable_button[history[i].module]) )
      => \A a \in {pop_then_append(n, D, v, f, enable, new_item)} :
           tail_dropped(history, n, a, D, v)

\* C10 amended: the same, where every entry of h[n..] is of an instance that
\* is neither default-enabled nor has its enable button hidden, or is of an
\* operation that has an entry in h[0..n)
C10_TailDrop ==
  history_end = Len(history) =>
    \A n \in 1..Len(history), D \in ModuleIds, v \in 0..MaxParam,
       f \in 0..MaxFocus, enable \in BOOLEAN, new_item \in BOOLEAN :
      ( /\ D # history[n].module
        /\ \A i \in (n + 1)..Len(history) :
             \/ (~module_default_enabled[history[i].module]
                 /\ ~module_hide_enable_button[history[i].module])
             \/ \E j \in 1..n :
                  module_so[history[j].module] = module_so[history[i].module] )
      => \A a \in {pop_then_append(n, D, v, f, enable, new_item)} :
           tail_dropped(history, n, a, D, v)

\* pop_to(1) on [A, B] with the cursor at the end, then an append of D: the
\* redo tail is gone, the history is [A, D], cursor 2
C10_Witness ==
  /\ last.op = "append" /\ last.pushed /\ last.full
  /\ last.cnt = 1 /\ last.len0 = 2
  /\ Len(history) = 2 /\ history_end = 2
  /\ history[2].module = last.module /\ history[1].module # last.module

\* the entries of h at or below the cursor n followed by those above it that
\* satisfy preserved, and the cursor advanced by their number
truncated_to(h, n, preserved(_)) ==
  LET above == {i \in (n + 1)..Len(h) : preserved(i)}
  IN [history |-> SelectIdx(h, LAMBDA i : i <= n \/ i \in above),
      history_end |-> n + Cardinality(above)]

\* an entry of the operation of h[i] lies in the active prefix h[0..n)
in_active_prefix(h, n, i) ==
  \E j \in 1..n : module_so[h[j].module] = module_so[h[i].module]

\* C11 as claimed: when append truncates the redo tail, an entry above
\* history_end is preserved exactly when its operation is always-on
\* (DEFAULT_ENABLED and not HIDE_ENABLE_BUTTON) or duplicates an operation of
\* the active prefix; the others are dropped and history_end is advanced by
\* the number of preserved entries
C11_KeepAlwaysOnOrDuplicate ==
  (0 <= history_end /\ history_end < Len(history)) =>
    truncate_history(history, history_end)
      = truncated_to(history, history_end,
          LAMBDA i : \/ (module_default_enabled[history[i].module]
                         /\ ~module_hide_enable_button[history[i].module])
                     \/ in_active_prefix(history, history_end, i))

\* C11 amended: an entry above history_end is preserved exactly when its
\* module is default-enabled or has its enable button hidden, and no entry of
\* its operation lies in the active prefix; the others are dropped and
\* history_end is advanced by the number of preserved entries
C11_KeepRule ==
  (0 <= history_end /\ history_end < Len(history)) =>
    /\ truncate_history(history, history_end)
         = truncated_to(history, history_end,
             LAMBDA i : /\ (module_default_enabled[history[i].module]
                            \/ module_hide_enable_button[history[i].module])
                        /\ ~in_active_prefix(history, history_end, i))
    /\ \A m \in ModuleIds, v \in 0..MaxParam, f \in 0..MaxFocus, e \in BOOLEAN :
         \A t \in {truncate_history(history, history_end)} :
         \A a \in {append_to(history, history_end, mods, m, v, f, e, TRUE, FALSE)} :
            /\ a.history = Append(t.history, a.history[Len(a.history)])
            /\ a.history_end = t.history_end + 1

\* after pop_to(1) on a list of two, an append has kept the entry above the
\* cursor, moved the cursor over it and updated it in place
C11_Witness ==
  /\ last.op = "append" /\ last.full /\ ~last.pushed
  /\ last.cnt = 1 /\ last.len0 = 2
  /\ Len(history) = 2 /\ history_end = 2
  /\ history[2].module = last.module
  /\ module_default_enabled[last.module]

\* the live state pop_to(n) must leave in instance m, read off h[0..n) alone:
\* that of the last entry of m there, the defaults of m if there is none
live_after_pop(h, n, m) ==
  LET of_m == {i \in 1..Len(h) : i <= n /\ h[i].module = m}
  IN IF of_m = {}
     THEN [params |-> module_default_params[m],
           enabled |-> module_default_enabled[m],
           iop_order |-> IF module_multi_priority[m] = 0
                         THEN dt_ioppr_get_iop_order[m] ELSE INT_MAX]
     ELSE LET e == h[CHOOSE i \in of_m : \A j \in of_m : j <= i]
          IN [params |-> e.params, enabled |-> e.enabled,
              iop_order |-> e.iop_order]

\* C12: after pop_to(n) every module instance m has the live parameter bytes,
\* enabled flag and ordering rank of the last entry of m among history[0..n),
\* and its defaults if there is none; the result is a function of
\* history[0..n), whatever the live parameters and the cursor were before
C12_PopReplays ==
  /\ last.op = "pop" =>
       \A m \in ModuleIds : mods[m] = live_after_pop(history, last.cnt, m)
  /\ \A n \in 0..MaxPop :
       \A p \in {dt_dev_pop_history_items_ext(history, mods, n)} :
       \A q \in {dt_dev_pop_history_items_ext(
                   SubSeq(history, 1, IF n < Len(history) THEN n ELSE Len(history)),
                   [m \in ModuleIds |-> reset_module(m)], n)} :
          /\ p.mods = q.mods
          /\ \A m \in ModuleIds : p.mods[m] = live_after_pop(history, n, m)

\* pop_to(1) on a list of two: the instance of entry 0 carries the non-default
\* bytes of its entry, the instance of entry 1 is back at its defaults although
\* its entry holds other bytes
C12_Witness ==
  /\ last.op = "pop" /\ last.cnt = 1 /\ Len(history) = 2
  /\ history[1].module # history[2].module
  /\ history[1].params # module_default_params[history[1].module]
  /\ mods[history[1].module].params = history[1].params
  /\ history[2].params # module_default_params[history[2].module]
  /\ mods[history[2].module].params = module_default_params[history[2].module]

\* C13: in every reachable state no entry of the history stack is of an
\* operation whose flags include NO_HISTORY_STACK, an append called for an
\* instance of such an operation included
C13_NoHistoryStackAbsent ==
  \A i \in 1..Len(history) : ~module_no_history_stack[history[i].module]

persisted_fields(h) ==
  [i \in 1..Len(h) |-> [module |-> h[i].module,
                        multi_priority |-> h[i].multi_priority,
                        enabled |-> h[i].enabled,
                        params |-> h[i].params]]

\* dt_dev_write_history of the state (h, he), then dt_dev_read_history into a
\* freshly initialised develop state and dt_dev_pop_history_items(history_end)
write_read_pop(h, he, flags) ==
  LET r == dt_dev_read_history(<< >>, [m \in ModuleIds |-> reset_module(m)],
                               dev_write_history(h), he, flags, "none")
      p == dt_dev_pop_history_items_ext(r.history, r.mods, r.history_end)
  IN [history |-> r.history, history_end |-> p.history_end, mods |-> p.mods]

\* the round trip gives back the entries, the cursor and the live parameters
round_trips(h, he, ms, flags) ==
  \A rt \in {write_read_pop(h, he, flags)} :
     /\ persisted_fields(rt.history) = persisted_fields(h)
     /\ rt.history_end = he
     /\ \A m \in ModuleIds : rt.mods[m].params = ms[m].params

\* C15: for every in-memory state s of an open image (entries, cursor, redo
\* tail included), write_history(s), then read_history into a fresh develop
\* state and pop_to(history_end) yield the entry sequence, the cursor and the
\* live module parameters of s
C15_RoundTrip ==
  gui.pc = "idle" => round_trips(history, history_end, mods, image_flags)

\* the reads so far that prepended auto-apply presets to the persisted history
prepending_reads == {i \in 1..Len(presets_prepended) : presets_prepended[i]}

presets_persisted(rows) ==
  \A j \in 1..Len(auto_presets) :
     \E i \in 1..Len(rows) : rows[i] = dev_write_history(auto_presets)[j]

\* C17: AUTO_PRESETS_APPLIED is set atomically with the write of the resolved
\* entries: whenever a step sets the flag, also one in which a statement of the
\* merge fails, the resolved preset entries are in the persisted history
C17_FlagSetWithWrite ==
  [][(/\ DT_IMAGE_AUTO_PRESETS_APPLIED \notin image_flags
      /\ DT_IMAGE_AUTO_PRESETS_APPLIED \in image_flags')
       => presets_persisted(db_history')]_vars

\* C18: when dt_dev_sync_pixelpipe_hash is called on the Preview with the hash
\* of its last completed run after the history was changed and before the
\* Preview has run again, it does not return TRUE without asking for a redraw:
\* it returns TRUE with the redraw queued, or FALSE
C18_NoOkAtStaleHash ==
  (/\ gui.pc = "idle"
   /\ sync.stale
   /\ changed["preview"] # DT_DEV_PIPE_UNCHANGED
   /\ \A w \in Workers : job[w].pc = "idle" \/ job[w].pipe # "preview")
    => sync.result \in {"none", "ok_redraw", "timed_out"}

\* no Full job has got its raw buffer: it is idle or has not passed
\* dt_mipmap_cache_get
full_raw_missing ==
  \A w \in Workers :
     job[w].pc \in {"idle", "lock", "getbuf"} \/ job[w].pipe # "full"

\* as long as dev->image_loading is set no Preview job is past its first test
\* and the Preview has not become VALID
PreviewWaitsForRaw ==
  loading["full"] =>
    /\ status["preview"] # DT_DEV_PIXELPIPE_VALID
    /\ \A w \in Workers : job[w].pc = "idle" \/ job[w].pipe # "preview"

\* C19: with the source of the Preview in the mipmap cache and Preview jobs
\* queued again and again, the Preview reaches VALID even if the raw never
\* becomes available, every Full run ending DIRTY
C19_PreviewLive ==
  ([]full_raw_missing) => <>(status["preview"] = DT_DEV_PIXELPIPE_VALID)

(***************************************************************************)
(* Properties of the autosave.                                             *)
(***************************************************************************)
\* the step in which _dev_add_history_item_ext runs for the GUI thread
add_history_item_step == gui.pc = "add_lock" /\ gui'.pc = "add_inval"

\* that step has saved the history
autosave_wrote == Len(autosaves') > Len(autosaves)

\* C20 as stated: an add_history_item saves exactly when autosaving is on, at
\* least user_delay has passed since the last autosave, the image is not
\* loading and requested_id is the id of the image; and two autosaves are at
\* least user_delay apart
C20_SpecAutosave ==
  /\ [][add_history_item_step =>
          (autosave_wrote <=> (/\ autosaving
                               /\ now - last_save >= user_delay
                               /\ ~loading["full"]
                               /\ requested_id = imgid))]_vars
  /\ [](\A i, j \in 1..Len(autosaves) :
          i < j => autosaves[j] - autosaves[i] >= user_delay)

\* C20, amended: an add_history_item saves exactly when autosaving is on,
\* user_delay is at least one second, more than user_delay has passed since
\* the last autosave, the image is not loading, and requested_id is the valid
\* id of the image; and two autosaves are more than user_delay apart
C20_Autosave ==
  /\ [][add_history_item_step =>
          (autosave_wrote <=> (/\ autosaving
                               /\ user_delay >= 1
                               /\ now - last_save > user_delay
                               /\ ~loading["full"]
                               /\ requested_id = imgid
                               /\ imgid > 0))]_vars
  /\ [](\A i, j \in 1..Len(autosaves) :
          i < j => autosaves[j] - autosaves[i] > user_delay)

\* two autosaves as close as the interval lets them be
C20_Witness ==
  /\ Len(autosaves) = 2
  /\ autosaves[2] - autosaves[1] = user_delay + 1
  /\ Len(history) > Len(db_history)

(***************************************************************************)
(* Properties of a refused write.                                          *)
(***************************************************************************)
\* C21: when the store refuses the write of dt_dev_write_history, the command
\* that encloses the write tells its caller of the failure, and leaves the
\* history, the cursor and the module parameters as they were before it
C21_RefusedWriteSurfaced ==
  /\ [](write_outcome.refused => write_outcome.surfaced)
  /\ [][(write_outcome'.refused /\ ~write_outcome.refused)
          => (history' = history /\ history_end' = history_end /\ mods' = mods)]_vars

(***************************************************************************)
(* Properties of the instances of the modules.                             *)
(***************************************************************************)
\* the iop_order of every instance of dev->iop
instance_ranks == ranks_of(mods, iop)

\* C22: after loads, appends, pops and duplications of modules the iop_order
\* of the instances of one image are pairwise distinct, those of the
\* instances with multi_priority > 0 that have no item in the active part of
\* the history included
C22_RanksDistinct ==
  \A i, j \in 1..Len(instance_ranks) :
     i # j => instance_ranks[i] # instance_ranks[j]

\* the history items of ONE_INSTANCE modules have multi_priority 0
history_priority_coerced ==
  \A i \in 1..Len(history) :
     module_one_instance[history[i].module] => history[i].multi_priority = 0

\* C23: every instance and every history item of a ONE_INSTANCE module has
\* multi_priority 0: the read of the history makes the multi_priority of such
\* a row 0, and the duplication of a module makes no second instance of such
\* a module
C23_OneInstancePriorityZero ==
  /\ history_priority_coerced
  /\ \A i \in 1..Len(iop) :
        module_one_instance[iop[i].instance] => iop[i].multi_priority = 0

(***************************************************************************)
(* Properties of the change flags of two appends in a row.                 *)
(***************************************************************************)
\* the history was empty, and two appends have followed for the same module
\* with the same parameter bytes and the same focus hash, the second with
\* new_item not set
coalesce_scenario ==
  /\ last.op = "append" /\ last.rep = "same"
  /\ Len(last.flags) = 2

\* how many of the appends of last.flags raised the flag
raised_count(flag) ==
  Cardinality({i \in 1..Len(last.flags) : flag \subseteq last.flags[i]})

sorted_ranks == SortSeq(instance_ranks, LAMBDA a, b : a < b)

\* the step of dt_dev_pop_history_items that replays and raises the flag
pop_items_step == gui.pc = "pop_lock" /\ gui'.pc = "pop_inval"

\* the step of dt_dev_pop_history_items that invalidates
pop_invalidate_step == gui.pc = "pop_inval" /\ gui'.pc # "pop_inval"

merge_done == last_merge.k > 0 /\ last_merge.fail = "none"

\* C26: a merge of k > 0 entries into rows numbered 0..m-1 with history_end c
\* leaves the rows numbered 0..m+k-1 with no gap and no num twice: the new
\* entries at 0..k-1, every old row k higher, history_end = c + k
C26_MergeNums ==
  merge_done =>
     LET k == last_merge.k
         m == Len(last_merge.nums0)
     IN /\ last_merge.nums0 = [i \in 1..m |-> i - 1]
        /\ last_merge.nums = [i \in 1..(m + k) |-> i - 1]
        /\ \A i \in 1..m : last_merge.nums[k + i] = last_merge.nums0[i] + k
        /\ last_merge.history_end = last_merge.end0 + k

\* two entries were prepended to one stored row
C26_Witness ==
  /\ merge_done
  /\ last_merge.k = 2
  /\ Len(last_merge.nums0) = 1
  /\ last_merge.end0 = 1

(***************************************************************************)
(* Properties of the read of rows of other versions and installations.     *)
(***************************************************************************)
\* the step of dt_dev_read_history_ext
read_history_step ==
  /\ gui.pc \in {"load_read", "reload_read"}
  /\ gui'.pc \notin {"load_read", "reload_read"}

\* the rows of main.history the read has gone through, less those of an
\* operation that is not installed and those whose parameters cannot be
\* converted
remaining_rows(rows) ==
  SelectIdx(rows, LAMBDA i : /\ rows[i].module # UninstalledOp
                             /\ rows[i].version \in {1, module_version[1]})

\* C27: a row whose operation is not installed, or whose parameters
\* dt_iop_legacy_params cannot convert, is dropped and the read goes on: the
\* entries the read appends are those of the other rows in the order of their
\* num, and the parameters of no module change
C27_DroppedRows ==
  [][read_history_step =>
       LET rest == remaining_rows(last_merge'.rows)
       IN /\ Len(history') = Len(history) + Len(rest)
          /\ \A i \in 1..Len(rest) :
                /\ history'[Len(history) + i].module = rest[i].module
                /\ history'[Len(history) + i].module \in ModuleIds
                /\ rest[i].version = module_version[rest[i].module]
                     => history'[Len(history) + i].params = rest[i].params
          /\ \A m \in ModuleIds : mods'[m].params = mods[m].params]_vars

\* a read has gone through a row that cannot be converted, a row that can be
\* read and a row of an operation that is not installed
C27_Witness ==
  /\ gui.pc = "idle"
  /\ \E i, j \in 1..Len(last_merge.rows) :
        /\ last_merge.rows[i] = unreadable_exposure_row
        /\ last_merge.rows[j] = uninstalled_row
  /\ \E i \in 1..Len(history) : history[i].module = 1 /\ history[i].params = stored_row.params

\* dt_dev_read_history of the rows as the step leaves them, into a develop
\* state with no history
read_again ==
  dt_dev_read_history(<< >>, mods', db_history', db_history_end', image_flags',
                      "none")

wait_bounded ==
  /\ sync.n <= IF sync.nloop > 0 THEN sync.nloop ELSE 0
  /\ sync.result = "timed_out" =>
        /\ sync.why = "timeout" /\ sync.n = sync.nloop
        /\ sync.flags \cap history_changed_flags = {}
  /\ sync.result = "ok_redraw" <=>
        /\ sync.why = "timeout" /\ sync.n = sync.nloop
        /\ sync.flags \cap history_changed_flags # {}

\* C29 as the spec has it: dt_dev_wait_hash polls at most timeout times and
\* then times out, and returns Ok before that only when the hashes match or
\* the pipeline is shut down
C29_SpecWaitOk ==
  /\ wait_bounded
  /\ sync.result = "ok" => sync.why \in {"match", "shutdown"}

\* C29: dt_dev_wait_hash polls at most timeout times and then times out; it
\* returns Ok before that when the hashes match, when the pipeline is shut
\* down, and, with no poll at all, when the timeout is not positive;
\* dt_dev_sync_pixelpipe_hash fails only after a timeout with none of
\* TOP_CHANGED, REMOVE and SYNCH set and asks for the redraw exactly after a
\* timeout with one of them set
C29_WaitOk ==
  /\ wait_bounded
  /\ sync.result = "ok" =>
        \/ sync.why = "match" /\ sync.nloop > 0 /\ sync.n < sync.nloop
        \/ sync.why = "shutdown" /\ sync.nloop > 0 /\ sync.n < sync.nloop
        \/ sync.why = "omitted" /\ sync.nloop <= 0 /\ sync.n = 0
  /\ (sync.nloop <= 0 /\ sync.why # "none") => sync.result = "ok"

\* a wait has timed out after MaxNloop polls with no flag on the pipeline
C29_Witness ==
  /\ sync.result = "timed_out"
  /\ sync.n = MaxNloop
  /\ changed["preview"] = DT_DEV_PIPE_UNCHANGED

\* a wait with a timeout of 0 has returned Ok
C29_WitnessOmitted ==
  /\ sync.result = "ok" /\ sync.why = "omitted" /\ sync.nloop = 0

(***************************************************************************)
(* Properties of a render job that starts while the GUI is leaving.        *)
(***************************************************************************)
\* worker w takes the mutex of its pipeline, finds gui_leaving and returns
leaving_at_start(w) ==
  /\ job[w].pc = "lock"
  /\ gui_leaving
  /\ job'[w] = IdleJob

\* C30: a render job that finds gui_leaving set at its first check after
\* taking the mutex of its pipeline leaves the status of that pipeline
\* INVALID when it returns
C30_LeavingMarksInvalid ==
  [][\A w \in Workers :
       leaving_at_start(w) =>
         status'[job[w].pipe] = DT_DEV_PIXELPIPE_INVALID]_vars

(***************************************************************************)
(* Properties of a render run that gets no source buffer.                  *)
(***************************************************************************)
\* worker w, holding the mutex of its pipeline, gets no buffer and returns
raw_missing_step(w) ==
  /\ job[w].pc = "getbuf"
  /\ job'[w] = IdleJob

\* worker w publishes the image of the Full pipeline
full_publish_step(w) ==
  /\ job[w].pc = "publish"
  /\ job'[w] = IdleJob

\* C31: a run that gets no source buffer leaves the status of its pipeline
\* DIRTY, releases the mutex of the pipeline and leaves the nodes alone; a Full
\* run adds one to the invalid-image counter, the other runs leave it, and a
\* Full run that publishes VALID sets it to 0
C31_RawMissing ==
  [][\A w \in Workers :
       /\ raw_missing_step(w) =>
            /\ status'[job[w].pipe] = DT_DEV_PIXELPIPE_DIRTY
            /\ pipe_mutex[job[w].pipe] = w
            /\ pipe_mutex'[job[w].pipe] = Free
            /\ nodes_hash' = nodes_hash
            /\ loading' = loading
            /\ image_invalid_cnt' =
                 IF job[w].pipe = "full" THEN image_invalid_cnt + 1
                 ELSE image_invalid_cnt
       /\ full_publish_step(w) =>
            /\ status'["full"] = DT_DEV_PIXELPIPE_VALID
            /\ image_invalid_cnt' = 0]_vars

\* the raw was missing for MaxRawCnt Full runs in a row
C31_Witness ==
  /\ image_invalid_cnt = MaxRawCnt
  /\ status["full"] = DT_DEV_PIXELPIPE_DIRTY
  /\ pipe_mutex["full"] = Free

(***************************************************************************)
(* Properties of dt_dev_invalidate_preview.                                *)
(***************************************************************************)
\* the GUI thread calls dt_dev_invalidate_preview
invalidate_preview_step == GuiInvalidatePreview(MaxRenderTimestamp)

\* what the call does to the statuses and to the timestamp
invalidate_preview_marks ==
  /\ status' = [status EXCEPT !["preview"] = DT_DEV_PIXELPIPE_DIRTY]
  /\ timestamp' = timestamp + 1
  /\ input_timestamp'["preview"] = input_timestamp["preview"]

\* C32 as the spec has it: dt_dev_invalidate_preview sets only the Preview
\* status to DIRTY, adds one to the timestamp, and leaves the input of the Full
\* and of the Secondary pipeline older than the timestamp of the develop state
C32_SpecInputOlder ==
  [][invalidate_preview_step =>
       /\ invalidate_preview_marks
       /\ input_timestamp'["full"] < timestamp'
       /\ input_timestamp'["preview2"] < timestamp']_vars

\* C32: dt_dev_invalidate_preview sets only the Preview status to DIRTY, adds
\* one to the timestamp, and gives the Full and the Secondary pipeline the new
\* timestamp as that of their input, so neither sees its input as older than
\* the develop state; the input of the Preview pipeline is left older
C32_InputCurrent ==
  [][invalidate_preview_step =>
       /\ invalidate_preview_marks
       /\ input_timestamp'["full"] = timestamp'
       /\ input_timestamp'["preview2"] = timestamp'
       /\ input_timestamp'["preview"] < timestamp']_vars

\* the Preview was invalidated on its own while the other two were valid
C32_Witness ==
  /\ status["preview"] = DT_DEV_PIXELPIPE_DIRTY
  /\ status["full"] = DT_DEV_PIXELPIPE_VALID
  /\ status["preview2"] = DT_DEV_PIXELPIPE_VALID
  /\ timestamp > 0
  /\ input_timestamp["full"] = timestamp
  /\ input_timestamp["preview2"] = timestamp
  /\ input_timestamp["preview"] < timestamp

(***************************************************************************)
(* Properties of the setup a run makes while its pipeline is loading.      *)
(***************************************************************************)
\* worker w has its buffer, finds the loading flag of its pipeline set and
\* goes on to the restart label
loading_setup_step(w) ==
  /\ job[w].pc = "getbuf"
  /\ job'[w].pc = "restart"
  /\ loading[job[w].pipe]

\* the points of a run from the restart label to the end of the loop
LoopPcs == {"restart", "change", "changing", "process", "publish"}

\* C33 as the spec has it: a run of any pipeline that finds the loading flag
\* set has recreated the nodes, flushed the cache and cleared the flag when it
\* enters the process loop
C33_SpecLoadingCleared ==
  [][\A w \in Workers :
       loading_setup_step(w) =>
         /\ job'[w].recreated
         /\ job'[w].flushed
         /\ ~loading'[job[w].pipe]]_vars

\* C33: a run that finds the loading flag of its pipeline set recreates the
\* nodes before the process loop; the Preview and the Secondary run also flush
\* the cache and clear the flag there; the Full run flushes the cache only
\* when image_force_reload is set, clears image_force_reload, and leaves
\* image_loading set through the loop: it is cleared by the run that publishes
\* VALID
C33_LoadingSetup ==
  [][\A w \in Workers :
       /\ loading_setup_step(w) =>
            /\ job'[w].recreated
            /\ IF job[w].pipe = "full"
               THEN /\ job'[w].flushed = image_force_reload
                    /\ ~image_force_reload'
                    /\ loading'["full"]
               ELSE /\ job'[w].flushed
                    /\ ~loading'[job[w].pipe]
       /\ (job[w].pc = "getbuf" /\ job'[w].pc = "restart"
             /\ ~loading[job[w].pipe]) =>
            /\ ~job'[w].recreated
            /\ loading' = loading
       /\ full_publish_step(w) => ~loading'["full"]
       /\ (job[w].pc \in LoopPcs /\ job'[w] = IdleJob /\ ~full_publish_step(w)) =>
            loading' = loading]_vars

\* a Full run is in its process loop with image_loading still set, the nodes
\* recreated and the cache flushed for a reload
C33_Witness ==
  \E w \in Workers :
    /\ job[w].pc = "process"
    /\ job[w].pipe = "full"
    /\ job[w].recreated /\ job[w].flushed
    /\ loading["full"]

\* a Preview run is in its process loop with the nodes recreated and
\* preview_loading cleared
C33_WitnessPreview ==
  \E w \in Workers :
    /\ job[w].pc = "process"
    /\ job[w].pipe = "preview"
    /\ job[w].recreated /\ job[w].flushed
    /\ ~loading["preview"]

(***************************************************************************)
(* Properties of the undo checkpoints of dt_dev_add_history_item.          *)
(***************************************************************************)
\* the GUI thread enters _dev_add_history_item
add_item_step == gui.pc = "idle" /\ gui'.pc = "add_lock"

\* the step started a record: HISTORY_WILL_CHANGE was raised
checkpoint_opened == undo'.depth = undo.depth + 1

\* the edit at the clock reading now is inside the window of the checkpoint
\* that is there
inside_window ==
  /\ now < undo.time + merge_same_secs
  /\ now < undo.pipe_time + review_secs

\* C34 as the spec has it: an edit whose target is not NULL and is that of
\* the previous edit, made inside the window, opens no checkpoint; any other
\* edit opens one
C34_SpecSameTargetMerges ==
  [][add_item_step =>
       (checkpoint_opened <=>
          ~(/\ undo'.asked # 0
            /\ undo'.asked = undo.asked
            /\ inside_window))]_vars

\* C34: an edit that leaves the label of its module as it was, whose target
\* is not NULL and is the target the develop state remembers (that of the
\* previous edit, unless that edit changed the label of its module), made
\* before both gui_previous_time + merge_same_secs and gui_previous_pipe_time
\* + review_secs, opens no checkpoint; every other edit opens one, and so does
\* an edit that changes the label of its module whatever its target
C34_SameTargetMerges ==
  [][add_item_step =>
       /\ checkpoint_opened <=>
            ~(/\ ~undo'.renamed
              /\ undo'.asked # 0
              /\ undo'.asked = undo.target
              /\ inside_window)
       /\ undo'.renamed => checkpoint_opened
       /\ undo'.target = IF checkpoint_opened
                         THEN (IF undo'.renamed THEN 0 ELSE undo'.asked)
                         ELSE undo.target
       /\ undo'.time = IF checkpoint_opened THEN now ELSE undo.time]_vars

\* MaxMerged edits in a row of one widget have gone into the checkpoint that
\* was there
C34_Witness ==
  /\ undo.merged = MaxMerged
  /\ undo.target # 0
  /\ ~undo.opened
  /\ undo.depth = 0
  /\ gui.pc = "idle"

(***************************************************************************)
(* Properties of an autosave that was slow.                                *)
(***************************************************************************)
\* C35: an autosave whose write took more than 0.5 s leaves autosaving off,
\* and while autosaving is off it stays off and no add_history_item writes
\* the history or the history_end of the image
C35_SlowAutosaveDisables ==
  [][/\ (autosave_wrote /\ write_outcome'.slow) => ~autosaving'
     /\ (autosave_wrote /\ ~write_outcome'.slow) => autosaving'
     /\ ~autosaving =>
          /\ ~autosaving'
          /\ ~autosave_wrote
          /\ add_history_item_step =>
               /\ db_history' = db_history
               /\ db_history_end' = db_history_end]_vars

\* a slow autosave has switched autosaving off, and an edit made after the
\* interval had passed again was not written
C35_Witness ==
  /\ ~autosaving
  /\ Len(autosaves) = 1
  /\ user_delay >= 1
  /\ undo.time > autosaves[1] + user_delay
  /\ Len(history) > Len(db_history)
  /\ gui.pc = "idle"

(***************************************************************************)
(* Properties of the cursor after an append.                               *)
(***************************************************************************)
\* C36: right after an append, whether it pushed an entry or updated the
\* tail, and wherever the cursor was before, history_end is the length of the
\* history, and the entry at the cursor is the one the append wrote: that of
\* its module with the parameters of the module
C36_AppendCursorAtEnd ==
  last.op = "append" =>
    /\ history_end = Len(history)
    /\ history_end >= 1
    /\ history[history_end].module = last.module
    /\ history[history_end].params = mods[last.module].params
    /\ history[history_end].enabled = mods[last.module].enabled

\* an append found the cursor beyond the end of the list and pushed
C36_Witness ==
  /\ last.op = "append" /\ last.beyond /\ last.pushed
  /\ history_end = Len(history)
  /\ Len(history) = MaxLen

\* an append dropped a redo tail and updated the tail in place
C36_WitnessUpdated ==
  /\ last.op = "append" /\ ~last.pushed /\ last.full /\ last.cnt >= 1
  /\ history_end = Len(history)

(***************************************************************************)
(* Properties of dt_dev_module_remove.                                     *)
(***************************************************************************)
\* a step of dt_dev_module_remove from a cursor within the list
module_remove_step ==
  /\ last'.op = "remove" /\ last' # last
  /\ 0 <= history_end /\ history_end <= Len(history)

\* the entries of h below the cursor he that are not of module m, in order
active_without(h, he, m) ==
  SelectIdx(h, LAMBDA i : i <= he /\ h[i].module # m)

\* C37: after dt_dev_module_remove(module) on a gui-attached develop state no
\* history entry references the module, 0 <= history_end <= len(history), and
\* the active prefix is made of the entries that were active and are not of
\* the module, in their order
C37_RemoveKeepsActivePrefix ==
  [][module_remove_step =>
       /\ \A i \in 1..Len(history') : history'[i].module # last'.module
       /\ 0 <= history_end' /\ history_end' <= Len(history')
       /\ SubSeq(history', 1, history_end')
            = active_without(history, history_end, last'.module)]_vars

\* what holds of the code: no entry of the module is left, the other
\* entries keep their order, and the cursor is lowered by the number of the
\* entries of the module, those of the redo tail included
C37_RemoveLowersCursorByAll ==
  [][module_remove_step =>
       /\ \A i \in 1..Len(history') : history'[i].module # last'.module
       /\ history' = active_without(history, Len(history), last'.module)
       /\ history_end' = history_end - (Len(history) - Len(history'))]_vars

\* a removal that found an entry of the module in the redo tail and an
\* active entry of another module
C37_Witness ==
  /\ last.op = "remove" /\ last.pushed
  /\ last.cnt >= 1 /\ last.cnt < last.len0
  /\ history_end < last.cnt
  /\ Len(history) >= 1

(***************************************************************************)
(* Properties of the cursor after the read of the history.                 *)
(***************************************************************************)
\* the step of dt_dev_read_history_ext of a load, into a develop state with
\* no history
first_read_step ==
  /\ gui.pc = "load_read" /\ gui'.pc = "idle"
  /\ history = << >> /\ history_end = 0

\* C38: after the read of the history into a freshly initialised develop
\* state 0 <= history_end <= len(history), rows dropped or not, and the
\* history_end of the image record is not larger than the number of rows
\* written back
C38_ReadCursorInRange ==
  [][first_read_step =>
       /\ 0 <= history_end' /\ history_end' <= Len(history')
       /\ db_history_end' <= Len(db_history')]_vars

\* what holds of the code: the cursor is the history_end of the image
\* record, which the read leaves as the merge made it, and the rows written
\* back are those of the entries
C38_ReadCursorAsStored ==
  [][first_read_step =>
       /\ history_end' = last_merge'.history_end
       /\ db_history_end' = last_merge'.history_end
       /\ Len(db_history') = Len(history')
       /\ (Len(history') = Len(last_merge'.rows)
             => 0 <= history_end' /\ history_end' <= Len(history'))]_vars

(***************************************************************************)
(* Properties of the balance of the undo checkpoints.                      *)
(***************************************************************************)
\* C39: the undo checkpoints are balanced: when the operation that raised
\* HISTORY_WILL_CHANGE through dt_dev_undo_start_record has returned,
\* HISTORY_CHANGE has followed it, once: no checkpoint is open while the GUI
\* thread is in no operation
C39_CheckpointsBalanced ==
  gui.pc = "idle" => undo.depth = 0

\* the removal of a module that has a history item closes its checkpoint
C39_RemoveWithItemBalanced ==
  [][(last'.op = "remove" /\ last' # last /\ last'.pushed)
       => undo'.depth = undo.depth]_vars

(***************************************************************************)
(* Properties of the exits of the render jobs.                             *)
(***************************************************************************)
\* the job of worker w returns
job_exit_step(w) == job[w].pc # "idle" /\ job'[w].pc = "idle"

\* the statuses a job leaves behind
FinalStatuses == {DT_DEV_PIXELPIPE_VALID, DT_DEV_PIXELPIPE_INVALID,
                  DT_DEV_PIXELPIPE_DIRTY}

\* a job past its first test of gui_leaving owns the mutex of its pipeline,
\* once, and no other job does
job_owns_its_mutex ==
  \A w \in Workers :
     /\ job[w].pc \in {"idle", "lock"} =>
          /\ \A p \in Pipes : pipe_mutex[p] # w
          /\ SelectSeq(held[w], LAMBDA x : x \in Pipes) = << >>
     /\ job[w].pc \notin {"idle", "lock"} =>
          /\ pipe_mutex[job[w].pipe] = w
          /\ SelectSeq(held[w], LAMBDA x : x \in Pipes) = << job[w].pipe >>

\* every return of a job leaves the mutex of its pipeline free and a final
\* status on the pipeline
job_exit_releases ==
  \A w \in Workers :
     job_exit_step(w) =>
        /\ pipe_mutex'[job[w].pipe] = Free
        /\ held'[w] = << >>
        /\ status'[job[w].pipe] \in FinalStatuses

\* from here on no change flag is raised and no processing is interrupted
quiet_step ==
  /\ ~ JobProcess(1, TRUE)
  /\ ~ GuiReloadImage(MaxTimestamp)

C40_TerminatesUnconditionally ==
  (job[1].pc # "idle") ~> (job[1].pc = "idle")

====
